---- MODULE Spec2Model ----
(***************************************************************************)
(* Model of the QRIS frame merger: the pointer-driven area selector        *)
(* (AreaSelector.tsx), the aspect-fit compositor (ImageMerger) and the     *)
(* print layout (PrintLayout.tsx).                                         *)
(*                                                                         *)
(* Coordinates are JavaScript numbers in the source.  The model keeps them *)
(* exact by counting in units of 1/Scale of a percentage point, so that    *)
(* fractional percentages (1.5 %) are representable as integers.           *)
(***************************************************************************)
EXTENDS Integers, Sequences, FiniteSets, TLC

\* ------------------------------------------------------------------ bounds
\* Units per percentage point (resolution of the coordinate grid).
Scale == 2
\* Number of pointer-down events explored in one behaviour.
MaxGestures == 2

\* ------------------------------------------------- constants of the source
\* The percentage space is [0,100] on each axis.
Full == 100 * Scale
\* handleSize = 3 in getCornerAtPosition.
handleSize == 3 * Scale
\* Minimum width/height of a resized area: `if (newW < 2) newW = 2`.
minSize == 2 * Scale
\* Commit threshold of handleMouseUp: `tempArea.width > 1`.
validThreshold == 1 * Scale

\* ------------------------------------------------------------ basic values
\* A nullable value is the empty sequence (null) or a one-element sequence.
Null == << >>
Some(v) == << v >>
IsNull(o) == o = << >>
Val(o) == o[1]

Min(a, b) == IF a < b THEN a ELSE b
Max(a, b) == IF a > b THEN a ELSE b
Abs(a) == IF a < 0 THEN 0 - a ELSE a

\* AreaConfig {x, y, width, height}.
Area(x, y, w, h) == [x |-> x, y |-> y, width |-> w, height |-> h]
\* A point {x, y}.
Point(x, y) == [x |-> x, y |-> y]

\* Client coordinates of pointer events, already taken relative to the
\* container and scaled to percent.  The first and the last lie outside the
\* container, so the edges 0 and 100 are reached through the clamp of
\* getRelativePosition.  Horizontally the grid has the boundary cases of the
\* commit threshold (a width of exactly 1) and of the handle tolerance (a
\* distance of exactly 3); vertically it has a fractional size (1.5).
RawX == { 0 - 5 * Scale, Scale, 3 * Scale, 105 * Scale }
RawY == { 0 - 5 * Scale, (3 * Scale) \div 2, 50 * Scale, 105 * Scale }
RawPoints == { Point(px, py) : px \in RawX, py \in RawY }

DragModes == { "none", "draw", "move",
               "resize-tl", "resize-tr", "resize-bl", "resize-br" }
ResizeModes == { "resize-tl", "resize-tr", "resize-bl", "resize-br" }

\* --------------------------------------------------------------- variables
VARIABLES
    areaConfig,        \* prop areaConfig: the persisted rectangle, nullable
    dragMode,          \* useState dragMode
    dragStart,         \* useState dragStart, nullable point
    tempArea,          \* useState tempArea: the candidate, nullable
    originalArea,      \* useState originalArea, nullable
    onAreaChangeCalls, \* arguments of the onAreaChange calls of the last handler
    event,             \* the handler that ran last
    pos,               \* pointer position computed by the last down/move handler
    downArea,          \* persisted rectangle when the last pointer-down ran
    resetSinceDown,    \* a reset ran since the last pointer-down
    gestures,          \* number of pointer-down events so far
    windowListeners,   \* handlers attached to window, per event type
    clampArg,          \* a rectangle handed to the floor-and-clamp step
    clampRes,          \* the results of applying the step once, then again
    frameImg,          \* mergeImages: pixel size of the decoded frame
    mergeArea,         \* mergeImages: prop areaConfig of ImageMerger
    targetArea,        \* mergeImages: const targetArea in pixels, nullable
    qrisImg,           \* mergeImages: pixel size of the decoded QRIS image
    drawRect,          \* mergeImages: rectangle of the second drawImage, nullable
    qrisImages,        \* ImageMerger prop qrisImages: the source ids in order
    passPc,            \* mergeImages: the await the pass is suspended at
    decoded,           \* outcome of each QRIS loadImage so far (TRUE = decoded)
    mergedResults,     \* mergeImages: const mergedResults
    reported,          \* argument of the onMergedImagesReady call, nullable
    mergedImages,      \* PrintLayout prop mergedImages: the composite ids
    printSize,         \* pixel size of every merged image (the frame's size)
    imagesPerPage,     \* PrintLayout prop imagesPerPage
    pages,             \* PrintLayout: const pages of the last render
    gridClass,         \* PrintLayout: getGridClass() of the last render
    isGenerating,      \* useState isGenerating
    exportPc,          \* "idle", or the export suspended at a loadImage
    exportCtx,         \* the constants and loop indices of that export
    pdf,               \* the jsPDF document: its pages and their images
    saved,             \* file name of the pdf.save of the last export, nullable
    alerted,           \* the last export raised the alert
    exportFailed,      \* a loadImage of the last export was rejected
    frameImage,        \* SettingsModal: useState frameImage, nullable
    saveSuccess,       \* SettingsModal: useState saveSuccess
    hideTimers,        \* pending setTimeout callbacks of handleSave
    savedSettings,     \* App: useState savedSettings, nullable
    stored,            \* localStorage item 'qris-merger-settings', nullable
    alertMsg,          \* message of the alert of the last handler, nullable
    download,          \* text of the last qris-area-config.json, nullable
    exportedArea,      \* the rectangle that export wrote, nullable
    importedText,      \* text of the file, if the last handler was an import
    configEvent,       \* the SettingsModal handler that ran last
    inFlight,          \* App: the mergeImages calls suspended at an await
    nextId,            \* App: number of the next uploaded source image
    lastReport,        \* argument of handleMergedImagesReady, if it ran last
    appEvent,          \* the App handler or pass step that ran last
    canvas             \* ImageMerger: what the hidden canvas shows

editorVars == << areaConfig, dragMode, dragStart, tempArea, originalArea,
                 onAreaChangeCalls, event, pos, downArea, resetSinceDown,
                 gestures, windowListeners >>
clampVars == << clampArg, clampRes >>
mergeVars == << frameImg, mergeArea, targetArea, qrisImg, drawRect >>

passVars == << qrisImages, passPc, decoded, mergedResults, reported >>

layoutVars == << mergedImages, printSize, imagesPerPage, pages, gridClass,
                 isGenerating, exportPc, exportCtx, pdf, saved, alerted,
                 exportFailed >>

configVars == << frameImage, saveSuccess, hideTimers, savedSettings, stored,
                 alertMsg, download, exportedArea, importedText, configEvent >>

appVars == << inFlight, nextId, lastReport, appEvent, canvas >>

vars == << editorVars, clampVars, mergeVars, passVars, layoutVars,
           configVars, appVars >>

\* What the handlers of one component leave alone: the other components.
outsideEditor == << clampVars, mergeVars, passVars, layoutVars,
                     configVars, appVars >>
outsideClamp == << editorVars, mergeVars, passVars, layoutVars,
                    configVars, appVars >>
outsideMerge == << editorVars, clampVars, passVars, layoutVars,
                    configVars, appVars >>
outsidePass == << editorVars, clampVars, mergeVars, layoutVars,
                   configVars, appVars >>
outsideLayout == << editorVars, clampVars, mergeVars, passVars, configVars,
                   appVars >>

\* ------------------------------------------------ AreaSelector: pure parts
\* getRelativePosition: clamp both coordinates to [0,100].
GetRelativePosition(raw) ==
    Point(Max(0, Min(Full, raw.x)), Max(0, Min(Full, raw.y)))

\* The corner table of getCornerAtPosition, in its iteration order.
Corners(area) ==
    << [mode |-> "resize-tl", cx |-> area.x, cy |-> area.y],
       [mode |-> "resize-tr", cx |-> area.x + area.width, cy |-> area.y],
       [mode |-> "resize-bl", cx |-> area.x, cy |-> area.y + area.height],
       [mode |-> "resize-br", cx |-> area.x + area.width,
                              cy |-> area.y + area.height] >>

NearCorner(p, c) ==
    Abs(p.x - c.cx) < handleSize /\ Abs(p.y - c.cy) < handleSize

InsideArea(p, area) ==
    /\ p.x >= area.x /\ p.x <= area.x + area.width
    /\ p.y >= area.y /\ p.y <= area.y + area.height

\* Variant: the interior is tested before the corners.
GetCornerAtPosition_InteriorFirst(p, area) ==
    LET cs == Corners(area)
        hits == { i \in 1..4 : NearCorner(p, cs[i]) }
    IN  IF InsideArea(p, area) THEN "move"
        ELSE IF hits # {}
        THEN cs[CHOOSE i \in hits : \A j \in hits : i <= j].mode
        ELSE "draw"

GetCornerAtPosition(p, area) ==
    LET cs == Corners(area)
        hits == { i \in 1..4 : NearCorner(p, cs[i]) }
    IN  IF hits # {}
        THEN cs[CHOOSE i \in hits : \A j \in hits : i <= j].mode
        ELSE IF InsideArea(p, area) THEN "move" ELSE "draw"

\* Variant: the origin stays at the anchor instead of the smaller coordinate.
DrawArea_NotNormalized(start, p) ==
    Area(start.x, start.y, Abs(p.x - start.x), Abs(p.y - start.y))

\* handleMouseMove, dragMode = 'draw'.
DrawArea(start, p) ==
    Area(Min(start.x, p.x), Min(start.y, p.y),
         Abs(p.x - start.x), Abs(p.y - start.y))

\* Variant: the translation is capped at 100 instead of 100 - size.
MoveArea_CapAtFull(orig, start, p) ==
    LET dx == p.x - start.x
        dy == p.y - start.y
        newX == Max(0, Min(Full, orig.x + dx))
        newY == Max(0, Min(Full, orig.y + dy))
    IN  Area(newX, newY, orig.width, orig.height)

\* handleMouseMove, dragMode = 'move'.
MoveArea(orig, start, p) ==
    LET dx == p.x - start.x
        dy == p.y - start.y
        newX == Max(0, Min(Full - orig.width, orig.x + dx))
        newY == Max(0, Min(Full - orig.height, orig.y + dy))
    IN  Area(newX, newY, orig.width, orig.height)

\* Variant: the top-right corner shrinks the width as the top-left one does.
ResizeRaw_TrShrinks(mode, orig, start, p) ==
    LET dx == p.x - start.x
        dy == p.y - start.y
    IN  CASE mode = "resize-tl" ->
                Area(orig.x + dx, orig.y + dy, orig.width - dx, orig.height - dy)
          [] mode = "resize-tr" ->
                Area(orig.x, orig.y + dy, orig.width - dx, orig.height - dy)
          [] mode = "resize-bl" ->
                Area(orig.x + dx, orig.y, orig.width - dx, orig.height + dy)
          [] mode = "resize-br" ->
                Area(orig.x, orig.y, orig.width + dx, orig.height + dy)
          [] OTHER -> orig

\* handleMouseMove, resize branch before the floor and clamp.
ResizeRaw(mode, orig, start, p) ==
    LET dx == p.x - start.x
        dy == p.y - start.y
    IN  CASE mode = "resize-tl" ->
                Area(orig.x + dx, orig.y + dy, orig.width - dx, orig.height - dy)
          [] mode = "resize-tr" ->
                Area(orig.x, orig.y + dy, orig.width + dx, orig.height - dy)
          [] mode = "resize-bl" ->
                Area(orig.x + dx, orig.y, orig.width - dx, orig.height + dy)
          [] mode = "resize-br" ->
                Area(orig.x, orig.y, orig.width + dx, orig.height + dy)
          [] OTHER -> orig

\* Variant: the sizes are floored at 1.
ClampResize_FloorAtOne(r) ==
    LET newW == IF r.width < validThreshold THEN validThreshold ELSE r.width
        newH == IF r.height < validThreshold THEN validThreshold ELSE r.height
        newX == Max(0, Min(Full - newW, r.x))
        newY == Max(0, Min(Full - newH, r.y))
    IN  Area(newX, newY, newW, newH)

\* The floor and clamp step closing the resize branch.
ClampResize(r) ==
    LET newW == IF r.width < minSize THEN minSize ELSE r.width
        newH == IF r.height < minSize THEN minSize ELSE r.height
        newX == Max(0, Min(Full - newW, r.x))
        newY == Max(0, Min(Full - newH, r.y))
    IN  Area(newX, newY, newW, newH)

ResizeArea(mode, orig, start, p) ==
    ClampResize(ResizeRaw(mode, orig, start, p))

\* n mousemove and n mouseup handlers on window.
Listeners(n) == [mousemove |-> n, mouseup |-> n]

\* Variant: the effect returns no cleanup.
UseEffect_NoCleanup(attached, oldMode, newMode, depsChanged) ==
    IF ~depsChanged THEN attached
    ELSE IF newMode # "none" THEN Listeners(attached.mousemove + 1)
    ELSE attached

\* The effect on [dragMode, handleMouseMove, handleMouseUp] after a render:
\* when a dependency changed, the cleanup the last run returned (it returned
\* one when dragMode was not 'none') removes its two handlers, then the
\* effect adds the new ones unless dragMode is 'none'.
UseEffect(attached, oldMode, newMode, depsChanged) ==
    IF ~depsChanged THEN attached
    ELSE LET cleaned == IF oldMode # "none"
                        THEN [mousemove |-> attached.mousemove - 1,
                              mouseup |-> attached.mouseup - 1]
                        ELSE attached
         IN  IF newMode # "none"
             THEN [mousemove |-> cleaned.mousemove + 1,
                   mouseup |-> cleaned.mouseup + 1]
             ELSE cleaned

\* Variant: a size of exactly 1 is accepted.
IsValidArea_AtLeast(r) == r.width >= validThreshold /\ r.height >= validThreshold

\* Variant: only the width is tested.
IsValidArea_WidthOnly(r) == r.width > validThreshold

\* The commit test of handleMouseUp.
IsValidArea(r) == r.width > validThreshold /\ r.height > validThreshold


\* --------------------------------------------------- ImageMerger: pure parts
\* Pixel quantities are exact fractions: a rectangle [den, x, y, width,
\* height] stands for {x/den, y/den, width/den, height/den}.
Size(w, h) == [width |-> w, height |-> h]

\* targetArea: the percentage rectangle scaled per axis by the frame size.
TargetArea(area, frame) ==
    [den    |-> Full,
     x      |-> area.x * frame.width,
     y      |-> area.y * frame.height,
     width  |-> area.width * frame.width,
     height |-> area.height * frame.height]

\* Variant: the comparison is reversed.
QrisIsWider_Reversed(q, t) == q.width * t.height < t.width * q.height

\* qrisAspect > targetAspect, for positive sizes.
QrisIsWider(q, t) == q.width * t.height > t.width * q.height

\* Variant: the image is put at the corner of the target, not centered.
AspectFit_NotCentered(q, t) ==
    IF QrisIsWider(q, t)
    THEN [den    |-> 2 * q.width * t.den,
          x      |-> 2 * q.width * t.x,
          y      |-> 2 * q.width * t.y,
          width  |-> 2 * q.width * t.width,
          height |-> 2 * t.width * q.height]
    ELSE [den    |-> 2 * q.height * t.den,
          x      |-> 2 * q.height * t.x,
          y      |-> 2 * q.height * t.y,
          width  |-> 2 * t.height * q.width,
          height |-> 2 * q.height * t.height]

\* drawWidth, drawHeight, drawX, drawY of mergeImages.
AspectFit(q, t) ==
    IF QrisIsWider(q, t)
    THEN \* fit to width: drawHeight = drawWidth / qrisAspect
         [den    |-> 2 * q.width * t.den,
          x      |-> 2 * q.width * t.x,
          y      |-> 2 * q.width * t.y
                       + (t.height * q.width - t.width * q.height),
          width  |-> 2 * q.width * t.width,
          height |-> 2 * t.width * q.height]
    ELSE \* fit to height: drawWidth = drawHeight * qrisAspect
         [den    |-> 2 * q.height * t.den,
          x      |-> 2 * q.height * t.x
                       + (t.width * q.height - t.height * q.width),
          y      |-> 2 * q.height * t.y,
          width  |-> 2 * t.height * q.width,
          height |-> 2 * q.height * t.height]

\* ------------------------------------------------------------------- Init
\* A canvas after `canvas.width = ...` and clearRect: nothing drawn.
BlankCanvas == [frame |-> "", area |-> Area(0, 0, 0, 0), qris |-> 0]

EditorInit ==
    /\ areaConfig = Null
    /\ dragMode = "none"
    /\ dragStart = Null
    /\ tempArea = Null
    /\ originalArea = Null
    /\ onAreaChangeCalls = << >>
    /\ event = "init"
    /\ pos = Null
    /\ downArea = Null
    /\ resetSinceDown = FALSE
    /\ gestures = 0
    /\ windowListeners = Listeners(0)

ClampIdle ==
    /\ clampArg = Null
    /\ clampRes = << >>

MergeIdle ==
    /\ frameImg = Null
    /\ mergeArea = Null
    /\ targetArea = Null
    /\ qrisImg = Null
    /\ drawRect = Null

PassIdle ==
    /\ qrisImages = << >>
    /\ passPc = "idle"
    /\ decoded = << >>
    /\ mergedResults = << >>
    /\ reported = Null

LayoutIdle ==
    /\ mergedImages = << >>
    /\ printSize = Null
    /\ imagesPerPage = 2
    /\ pages = << >>
    /\ gridClass = "grid-cols-2"
    /\ isGenerating = FALSE
    /\ exportPc = "idle"
    /\ exportCtx = Null
    /\ pdf = << >>
    /\ saved = Null
    /\ alerted = FALSE
    /\ exportFailed = FALSE

ConfigIdle ==
    /\ frameImage = Null
    /\ saveSuccess = FALSE
    /\ hideTimers = 0
    /\ savedSettings = Null
    /\ stored = Null
    /\ alertMsg = Null
    /\ download = Null
    /\ exportedArea = Null
    /\ importedText = Null
    /\ configEvent = "init"

AppIdle ==
    /\ inFlight = << >>
    /\ nextId = 1
    /\ lastReport = Null
    /\ appEvent = "init"
    /\ canvas = BlankCanvas

Init ==
    /\ EditorInit /\ ClampIdle /\ MergeIdle /\ PassIdle /\ LayoutIdle
    /\ ConfigIdle /\ AppIdle

\* ---------------------------------------------------------------- actions
\* handleMouseDown.
HandleMouseDown(raw) ==
    LET p == GetRelativePosition(raw) IN
    /\ gestures < MaxGestures
    /\ gestures' = gestures + 1
    /\ IF ~IsNull(areaConfig)
       THEN LET mode == GetCornerAtPosition(p, Val(areaConfig)) IN
            /\ dragMode' = mode
            /\ dragStart' = Some(p)
            /\ originalArea' = areaConfig
            /\ tempArea' = IF mode = "draw"
                           THEN Some(Area(p.x, p.y, 0, 0))
                           ELSE tempArea
       ELSE /\ dragMode' = "draw"
            /\ dragStart' = Some(p)
            /\ tempArea' = Some(Area(p.x, p.y, 0, 0))
            /\ originalArea' = originalArea
    /\ onAreaChangeCalls' = << >>
    /\ event' = "down"
    /\ pos' = Some(p)
    /\ downArea' = areaConfig
    /\ resetSinceDown' = FALSE
    /\ windowListeners' =
          UseEffect(windowListeners, dragMode, dragMode',
                    << dragMode', dragStart', tempArea', originalArea' >>
                       # << dragMode, dragStart, tempArea, originalArea >>)
    /\ UNCHANGED << areaConfig, outsideEditor >>

\* handleMouseMove, called by window through the attached listener.
HandleMouseMove(raw) ==
    LET p == GetRelativePosition(raw) IN
    /\ windowListeners.mousemove > 0
    /\ dragMode # "none"
    /\ ~IsNull(dragStart)
    /\ tempArea' =
         IF dragMode = "draw"
         THEN Some(DrawArea(Val(dragStart), p))
         ELSE IF dragMode = "move" /\ ~IsNull(originalArea)
         THEN Some(MoveArea(Val(originalArea), Val(dragStart), p))
         ELSE IF dragMode \in ResizeModes /\ ~IsNull(originalArea)
         THEN Some(ResizeArea(dragMode, Val(originalArea), Val(dragStart), p))
         ELSE tempArea
    /\ onAreaChangeCalls' = << >>
    /\ event' = "move"
    /\ pos' = Some(p)
    /\ windowListeners' =
          UseEffect(windowListeners, dragMode, dragMode, tempArea' # tempArea)
    /\ UNCHANGED << areaConfig, dragMode, dragStart, originalArea,
                    downArea, resetSinceDown, gestures, outsideEditor >>

\* A mousemove on window that changes nothing: no listener is attached, or
\* handleMouseMove returns at its first line.
MouseMoveIgnored ==
    /\ \/ windowListeners.mousemove = 0
       \/ dragMode = "none"
       \/ IsNull(dragStart)
    /\ event' = "move-ignored"
    /\ onAreaChangeCalls' = << >>
    /\ UNCHANGED << areaConfig, dragMode, dragStart, tempArea, originalArea,
                    pos, downArea, resetSinceDown, gestures, windowListeners,
                    outsideEditor >>

\* Variant: the original rectangle survives the pointer-up.
HandleMouseUp_KeepsOriginal ==
    /\ windowListeners.mouseup > 0
    /\ dragMode # "none"
    /\ IF ~IsNull(tempArea) /\ IsValidArea(Val(tempArea))
       THEN /\ areaConfig' = tempArea
            /\ onAreaChangeCalls' = << tempArea >>
       ELSE /\ areaConfig' = areaConfig
            /\ onAreaChangeCalls' = << >>
    /\ dragMode' = "none"
    /\ dragStart' = Null
    /\ tempArea' = Null
    /\ event' = "up"
    /\ windowListeners' = UseEffect(windowListeners, dragMode, "none", TRUE)
    /\ UNCHANGED << originalArea, pos, downArea, resetSinceDown, gestures,
                    outsideEditor >>

\* handleMouseUp, called by window through the attached listener.
HandleMouseUp ==
    /\ windowListeners.mouseup > 0
    /\ dragMode # "none"
    /\ IF ~IsNull(tempArea) /\ IsValidArea(Val(tempArea))
       THEN /\ areaConfig' = tempArea
            /\ onAreaChangeCalls' = << tempArea >>
       ELSE /\ areaConfig' = areaConfig
            /\ onAreaChangeCalls' = << >>
    /\ dragMode' = "none"
    /\ dragStart' = Null
    /\ tempArea' = Null
    /\ originalArea' = Null
    /\ event' = "up"
    /\ windowListeners' = UseEffect(windowListeners, dragMode, "none", TRUE)
    /\ UNCHANGED << pos, downArea, resetSinceDown, gestures,
                    outsideEditor >>

\* handleReset; the button is rendered only while areaConfig is set.
HandleReset ==
    /\ ~IsNull(areaConfig)
    /\ areaConfig' = Null
    /\ tempArea' = Null
    /\ onAreaChangeCalls' = << Null >>
    /\ event' = "reset"
    /\ resetSinceDown' = TRUE
    /\ windowListeners' = UseEffect(windowListeners, dragMode, dragMode, TRUE)
    /\ UNCHANGED << dragMode, dragStart, originalArea, pos, downArea,
                    gestures, outsideEditor >>

Next ==
    \/ \E raw \in RawPoints : HandleMouseDown(raw)
    \/ \E raw \in RawPoints : HandleMouseMove(raw)
    \/ MouseMoveIgnored
    \/ HandleMouseUp
    \/ HandleReset

Spec == Init /\ [][Next]_vars

\* ------------------------------------------- the floor-and-clamp step alone
\* Rectangles with width > 1 and height > 1, as the resize branch can hand
\* them to the step: positions on either side of the space, sizes from just
\* above the commit threshold to just above the whole space.
ClampXs == { 0 - 3 * Scale, 0, 50 * Scale, 99 * Scale, 103 * Scale }
ClampYs == { 0 - 3 * Scale, 0, 99 * Scale }
ClampWidths == { (3 * Scale) \div 2, 2 * Scale, 50 * Scale, 100 * Scale,
                 101 * Scale }
ClampHeights == { (3 * Scale) \div 2, 50 * Scale, 100 * Scale }
ClampInputs ==
    { Area(cx, cy, cw, ch) : cx \in ClampXs, cy \in ClampYs,
                             cw \in ClampWidths, ch \in ClampHeights }

ClampInit ==
    /\ EditorInit
    /\ MergeIdle
    /\ PassIdle
    /\ LayoutIdle
    /\ ConfigIdle
    /\ AppIdle
    /\ clampArg \in { Some(r) : r \in ClampInputs }
    /\ clampRes = << >>

\* The step applied to the rectangle.
ApplyClamp ==
    /\ clampRes = << >>
    /\ clampRes' = << ClampResize(Val(clampArg)) >>
    /\ UNCHANGED << clampArg, outsideClamp >>

\* The step applied to its own result.
ApplyClampAgain ==
    /\ Len(clampRes) = 1
    /\ clampRes' = Append(clampRes, ClampResize(clampRes[1]))
    /\ UNCHANGED << clampArg, outsideClamp >>

ClampNext == ApplyClamp \/ ApplyClampAgain

SpecClamp == ClampInit /\ [][ClampNext]_vars

\* ------------------------------------------------- one image of mergeImages
FrameSizes == { Size(100, 100), Size(400, 200), Size(3, 7) }
QrisSizes == { Size(w, h) : w \in 1..3, h \in 1..3 } \cup { Size(7, 2) }
MergeAreas ==
    { Area(ax, ay, aw, ah) :
        ax \in { 0, 25 * Scale }, ay \in { 0, 25 * Scale },
        aw \in { (3 * Scale) \div 2, 25 * Scale, 75 * Scale },
        ah \in { (3 * Scale) \div 2, 50 * Scale } }

MergeInit ==
    /\ EditorInit
    /\ ClampIdle
    /\ PassIdle
    /\ LayoutIdle
    /\ ConfigIdle
    /\ AppIdle
    /\ frameImg \in { Some(f) : f \in FrameSizes }
    /\ mergeArea \in { Some(a) : a \in MergeAreas }
    /\ qrisImg \in { Some(q) : q \in QrisSizes }
    /\ targetArea = Null
    /\ drawRect = Null

\* The frame has decoded: the percentage area is converted to pixels.
ComputeTarget ==
    /\ IsNull(targetArea)
    /\ targetArea' = Some(TargetArea(Val(mergeArea), Val(frameImg)))
    /\ UNCHANGED << frameImg, mergeArea, qrisImg, drawRect, outsideMerge >>

\* The body of the loop of mergeImages for one decoded QRIS image.
DrawQris ==
    /\ ~IsNull(targetArea)
    /\ IsNull(drawRect)
    /\ drawRect' = Some(AspectFit(Val(qrisImg), Val(targetArea)))
    /\ UNCHANGED << frameImg, mergeArea, targetArea, qrisImg, outsideMerge >>

MergeNext == ComputeTarget \/ DrawQris

SpecMerge == MergeInit /\ [][MergeNext]_vars

\* ------------------------------------------------ a whole pass of mergeImages
\* Number of QRIS images of a pass.
MaxImages == 5

\* The data URL the canvas yields for one source image.
Composite(id) == [qris |-> id]

\* Variant: a failed decode still pushes the canvas content.
AfterQrisLoad_PushesAnyway(results, id, ok) ==
    Append(results, Composite(id))

\* One iteration of the loop: the try body pushes the composite, the catch
\* logs and goes on.
AfterQrisLoad(results, id, ok) ==
    IF ok THEN Append(results, Composite(id)) ELSE results

\* ImageMerger is rendered only while there is at least one QRIS image.
PassInit ==
    /\ EditorInit
    /\ ClampIdle
    /\ MergeIdle
    /\ LayoutIdle
    /\ ConfigIdle
    /\ AppIdle
    /\ qrisImages \in { [i \in 1..n |-> i] : n \in 1..MaxImages }
    /\ passPc = "idle"
    /\ decoded = << >>
    /\ mergedResults = << >>
    /\ reported = Null

\* The effect calls mergeImages, which runs up to `await loadImage(frameImage)`.
StartPass ==
    /\ passPc = "idle"
    /\ passPc' = "frame"
    /\ mergedResults' = << >>
    /\ UNCHANGED << qrisImages, decoded, reported, outsidePass >>

\* The frame decodes: the pass enters the loop and awaits the first image.
FrameLoaded ==
    /\ passPc = "frame"
    /\ passPc' = "loop"
    /\ UNCHANGED << qrisImages, decoded, mergedResults, reported, outsidePass >>

\* The frame fails to decode: the rejection leaves mergeImages.
FrameFailed ==
    /\ passPc = "frame"
    /\ passPc' = "rejected"
    /\ UNCHANGED << qrisImages, decoded, mergedResults, reported, outsidePass >>

\* loadImage of the next QRIS image settles; after the last one the pass
\* calls onMergedImagesReady(mergedResults).
QrisSettled(ok) ==
    /\ passPc = "loop"
    /\ Len(decoded) < Len(qrisImages)
    /\ LET id == qrisImages[Len(decoded) + 1]
           results == AfterQrisLoad(mergedResults, id, ok)
           last == Len(decoded) + 1 = Len(qrisImages)
       IN  /\ decoded' = Append(decoded, ok)
           /\ mergedResults' = results
           /\ passPc' = IF last THEN "done" ELSE "loop"
           /\ reported' = IF last THEN Some(results) ELSE reported
    /\ UNCHANGED << qrisImages, outsidePass >>

PassNext ==
    \/ StartPass
    \/ FrameLoaded
    \/ FrameFailed
    \/ \E ok \in BOOLEAN : QrisSettled(ok)

SpecPass == PassInit /\ [][PassNext]_vars

\* Every image load eventually resolves or rejects, and effects run.
SpecPassLive == SpecPass /\ WF_vars(PassNext)

\* ------------------------------------------------------ exact arithmetic
\* JavaScript numbers of the layout code as fractions n/d in lowest terms.
RECURSIVE GCD(_, _)
GCD(a, b) == IF b = 0 THEN a ELSE GCD(b, a % b)

Q(n, d) ==
    LET g == GCD(Abs(n), Abs(d))
        sgn == IF d < 0 THEN 0 - 1 ELSE 1
    IN  [n |-> (sgn * n) \div g, d |-> (sgn * d) \div g]
QInt(k) == [n |-> k, d |-> 1]
QAdd(a, b) == Q(a.n * b.d + b.n * a.d, a.d * b.d)
QSub(a, b) == Q(a.n * b.d - b.n * a.d, a.d * b.d)
QMul(a, b) == Q(a.n * b.n, a.d * b.d)
QDiv(a, b) == Q(a.n * b.d, a.d * b.n)
QLt(a, b) == a.n * b.d < b.n * a.d
QLe(a, b) == a.n * b.d <= b.n * a.d

\* ------------------------------------------------- PrintLayout: pure parts
\* Number of merged images handed to PrintLayout.
MaxMerged == 10

\* PrintLayout takes any number; the select of App offers 1, 2, 4 and 6.
ImagesPerPageValues == { 1, 2, 3, 4, 5, 6, 7 }

\* Pixel sizes of the merged images: square, wide and tall frames.
PrintSizes == { Size(1, 1), Size(3, 1), Size(2, 5) }

\* for (let i = 0; i < mergedImages.length; i += imagesPerPage)
\*     pages.push(mergedImages.slice(i, i + imagesPerPage))
RECURSIVE PagesFrom(_, _, _)
PagesFrom(images, perPage, i) ==
    IF i >= Len(images) THEN << >>
    ELSE << SubSeq(images, i + 1, Min(i + perPage, Len(images))) >>
            \o PagesFrom(images, perPage, i + perPage)

\* Variant: the loop starts at the second image.
Pages_StartsAtOne(images, perPage) == PagesFrom(images, perPage, 1)

\* The pages of a render.
Pages(images, perPage) == PagesFrom(images, perPage, 0)

\* Variant: four images per page are laid out in four columns.
GetGridClass_FourColumns(perPage) ==
    CASE perPage = 1 -> "grid-cols-1"
      [] perPage = 2 -> "grid-cols-2"
      [] perPage = 4 -> "grid-cols-4"
      [] perPage = 6 -> "grid-cols-3"
      [] OTHER -> "grid-cols-2"

\* getGridClass.
GetGridClass(perPage) ==
    CASE perPage = 1 -> "grid-cols-1"
      [] perPage = 2 -> "grid-cols-2"
      [] perPage = 4 -> "grid-cols-2"
      [] perPage = 6 -> "grid-cols-3"
      [] OTHER -> "grid-cols-2"

\* Variant: two images per page are still printed in portrait.
GetOrientation_FromThree(perPage) ==
    IF perPage > 2 THEN "landscape" ELSE "portrait"

\* getOrientation.
GetOrientation(perPage) ==
    IF perPage >= 2 THEN "landscape" ELSE "portrait"

\* Math.ceil(a / b) for positive integers.
CeilDiv(a, b) == (a + b - 1) \div b

\* const cols of downloadPageAsPDF.
PageCols(perPage) ==
    IF perPage = 1 THEN 1
    ELSE IF perPage = 2 THEN 2
    ELSE IF perPage = 4 THEN 2
    ELSE 3

\* const cols of downloadAllAsPDF.
AllCols(perPage) ==
    IF perPage = 1 THEN 1
    ELSE IF perPage = 2 THEN 2
    ELSE IF perPage = 4 THEN 2
    ELSE 3

\* The constants downloadPageAsPDF computes before its loop.
PageExportLayout(perPage) ==
    LET orientation == GetOrientation(perPage)
        pageWidth == IF orientation = "landscape" THEN 297 ELSE 210
        pageHeight == IF orientation = "landscape" THEN 210 ELSE 297
        padding == 3
        cols == PageCols(perPage)
        rows == CeilDiv(perPage, cols)
        availableWidth == pageWidth - (padding * 2)
        availableHeight == pageHeight - (padding * 2)
    IN  [imagesPerPage |-> perPage,
         orientation |-> orientation,
         pageWidth |-> pageWidth, pageHeight |-> pageHeight,
         padding |-> padding, cols |-> cols, rows |-> rows,
         cellWidth |-> Q(availableWidth, cols),
         cellHeight |-> Q(availableHeight, rows)]

\* The constants downloadAllAsPDF computes before its loops.
AllExportLayout(perPage) ==
    LET orientation == GetOrientation(perPage)
        pageWidth == IF orientation = "landscape" THEN 297 ELSE 210
        pageHeight == IF orientation = "landscape" THEN 210 ELSE 297
        padding == 3
        cols == AllCols(perPage)
        rows == CeilDiv(perPage, cols)
        availableWidth == pageWidth - (padding * 2)
        availableHeight == pageHeight - (padding * 2)
    IN  [imagesPerPage |-> perPage,
         orientation |-> orientation,
         pageWidth |-> pageWidth, pageHeight |-> pageHeight,
         padding |-> padding, cols |-> cols, rows |-> rows,
         cellWidth |-> Q(availableWidth, cols),
         cellHeight |-> Q(availableHeight, rows)]

\* Variant: the image fills the whole cell, without the 0.99 shrink.
PlaceOnPage_NoShrink(c, i, id, img) ==
    LET col == i % c.cols
        row == i \div c.cols
        imgAspect == Q(img.width, img.height)
        cellAspect == QDiv(c.cellWidth, c.cellHeight)
        wider == QLt(cellAspect, imgAspect)
        drawWidth == IF wider THEN c.cellWidth
                     ELSE QMul(c.cellHeight, imgAspect)
        drawHeight == IF wider THEN QDiv(c.cellWidth, imgAspect)
                      ELSE c.cellHeight
        x == QAdd(QAdd(QInt(c.padding), QMul(QInt(col), c.cellWidth)),
                  QDiv(QSub(c.cellWidth, drawWidth), QInt(2)))
        y == QAdd(QAdd(QInt(c.padding), QMul(QInt(row), c.cellHeight)),
                  QDiv(QSub(c.cellHeight, drawHeight), QInt(2)))
    IN  [img |-> id, x |-> x, y |-> y, width |-> drawWidth, height |-> drawHeight]

\* The loop body of downloadPageAsPDF after the image has loaded: the
\* arguments of pdf.addImage for image i (from 0) of the page.
PlaceOnPage(c, i, id, img) ==
    LET col == i % c.cols
        row == i \div c.cols
        imgAspect == Q(img.width, img.height)
        cellAspect == QDiv(c.cellWidth, c.cellHeight)
        wider == QLt(cellAspect, imgAspect)
        drawWidth == IF wider THEN QMul(c.cellWidth, Q(99, 100))
                     ELSE QMul(QMul(c.cellHeight, Q(99, 100)), imgAspect)
        drawHeight == IF wider
                      THEN QDiv(QMul(c.cellWidth, Q(99, 100)), imgAspect)
                      ELSE QMul(c.cellHeight, Q(99, 100))
        x == QAdd(QAdd(QInt(c.padding), QMul(QInt(col), c.cellWidth)),
                  QDiv(QSub(c.cellWidth, drawWidth), QInt(2)))
        y == QAdd(QAdd(QInt(c.padding), QMul(QInt(row), c.cellHeight)),
                  QDiv(QSub(c.cellHeight, drawHeight), QInt(2)))
    IN  [img |-> id, x |-> x, y |-> y, width |-> drawWidth, height |-> drawHeight]

\* Variant: the image is put in the top left corner of its cell.
PlaceInAll_TopLeft(c, i, id, img) ==
    LET col == i % c.cols
        row == i \div c.cols
        imgAspect == Q(img.width, img.height)
        cellAspect == QDiv(c.cellWidth, c.cellHeight)
        wider == QLt(cellAspect, imgAspect)
        drawWidth == IF wider THEN QMul(c.cellWidth, Q(99, 100))
                     ELSE QMul(QMul(c.cellHeight, Q(99, 100)), imgAspect)
        drawHeight == IF wider
                      THEN QDiv(QMul(c.cellWidth, Q(99, 100)), imgAspect)
                      ELSE QMul(c.cellHeight, Q(99, 100))
        x == QAdd(QInt(c.padding), QMul(QInt(col), c.cellWidth))
        y == QAdd(QInt(c.padding), QMul(QInt(row), c.cellHeight))
    IN  [img |-> id, x |-> x, y |-> y, width |-> drawWidth, height |-> drawHeight]

\* The inner loop body of downloadAllAsPDF after the image has loaded.
PlaceInAll(c, i, id, img) ==
    LET col == i % c.cols
        row == i \div c.cols
        imgAspect == Q(img.width, img.height)
        cellAspect == QDiv(c.cellWidth, c.cellHeight)
        wider == QLt(cellAspect, imgAspect)
        drawWidth == IF wider THEN QMul(c.cellWidth, Q(99, 100))
                     ELSE QMul(QMul(c.cellHeight, Q(99, 100)), imgAspect)
        drawHeight == IF wider
                      THEN QDiv(QMul(c.cellWidth, Q(99, 100)), imgAspect)
                      ELSE QMul(c.cellHeight, Q(99, 100))
        x == QAdd(QAdd(QInt(c.padding), QMul(QInt(col), c.cellWidth)),
                  QDiv(QSub(c.cellWidth, drawWidth), QInt(2)))
        y == QAdd(QAdd(QInt(c.padding), QMul(QInt(row), c.cellHeight)),
                  QDiv(QSub(c.cellHeight, drawHeight), QInt(2)))
    IN  [img |-> id, x |-> x, y |-> y, width |-> drawWidth, height |-> drawHeight]

\* A page of the jsPDF document.
PdfPage(orientation) == [orientation |-> orientation, images |-> << >>]

\* pdf.addImage on the last page of the document.
AddImage(doc, placed) ==
    [doc EXCEPT ![Len(doc)].images = Append(@, placed)]

\* ---------------------------------------------------- PrintLayout: actions
\* PrintLayout is rendered only while there is at least one merged image;
\* imagesPerPage starts at the default of App.
LayoutInit ==
    /\ EditorInit
    /\ ClampIdle
    /\ MergeIdle
    /\ PassIdle
    /\ ConfigIdle
    /\ AppIdle
    /\ mergedImages \in { [i \in 1..n |-> i] : n \in 1..MaxMerged }
    /\ printSize \in { Some(sz) : sz \in PrintSizes }
    /\ imagesPerPage = 2
    /\ pages = Pages(mergedImages, 2)
    /\ gridClass = GetGridClass(2)
    /\ isGenerating = FALSE
    /\ exportPc = "idle"
    /\ exportCtx = Null
    /\ pdf = << >>
    /\ saved = Null
    /\ alerted = FALSE
    /\ exportFailed = FALSE

\* The prop imagesPerPage changes and PrintLayout renders again.  An export
\* that is suspended keeps the constants of the render it was started in.
SetImagesPerPage(v) ==
    /\ v # imagesPerPage
    /\ imagesPerPage' = v
    /\ pages' = Pages(mergedImages, v)
    /\ gridClass' = GetGridClass(v)
    /\ UNCHANGED << mergedImages, printSize, isGenerating, exportPc, exportCtx,
                    pdf, saved, alerted, exportFailed, outsideLayout >>

\* downloadPageAsPDF(pages[p], p - 1) up to its first `await loadImage`; the
\* button is disabled while isGenerating.
StartPageExport(p) ==
    /\ ~isGenerating
    /\ p \in 1..Len(pages)
    /\ isGenerating' = TRUE
    /\ exportPc' = "page"
    /\ exportCtx' = Some([kind |-> "page",
                          layout |-> PageExportLayout(imagesPerPage),
                          todo |-> << pages[p] >>,
                          pageIndex |-> p - 1,
                          pageIdx |-> 0,
                          i |-> 0])
    /\ pdf' = << PdfPage(GetOrientation(imagesPerPage)) >>
    /\ saved' = Null
    /\ alerted' = FALSE
    /\ exportFailed' = FALSE
    /\ UNCHANGED << mergedImages, printSize, imagesPerPage, pages, gridClass,
                    outsideLayout >>

\* downloadAllAsPDF up to its first `await loadImage`.
StartAllExport ==
    /\ ~isGenerating
    /\ Len(pages) > 0
    /\ isGenerating' = TRUE
    /\ exportPc' = "all"
    /\ exportCtx' = Some([kind |-> "all",
                          layout |-> AllExportLayout(imagesPerPage),
                          todo |-> pages,
                          pageIndex |-> 0,
                          pageIdx |-> 0,
                          i |-> 0])
    /\ pdf' = << PdfPage(GetOrientation(imagesPerPage)) >>
    /\ saved' = Null
    /\ alerted' = FALSE
    /\ exportFailed' = FALSE
    /\ UNCHANGED << mergedImages, printSize, imagesPerPage, pages, gridClass,
                    outsideLayout >>

\* The awaited loadImage resolves: the image is added, and the export runs
\* on to its next `await loadImage` or to pdf.save and setIsGenerating(false).
ImageLoaded ==
    /\ exportPc # "idle"
    /\ LET c == Val(exportCtx)
           pageImages == c.todo[c.pageIdx + 1]
           id == pageImages[c.i + 1]
           placed == IF exportPc = "page"
                     THEN PlaceOnPage(c.layout, c.i, id, Val(printSize))
                     ELSE PlaceInAll(c.layout, c.i, id, Val(printSize))
           drawn == AddImage(pdf, placed)
           lastOfPage == c.i + 1 = Len(pageImages)
           lastPage == c.pageIdx + 1 = Len(c.todo)
       IN  IF ~lastOfPage
           THEN /\ pdf' = drawn
                /\ exportCtx' = Some([c EXCEPT !.i = c.i + 1])
                /\ UNCHANGED << exportPc, isGenerating, saved >>
           ELSE IF ~lastPage
           THEN \* pdf.addPage('a4', orientation) opens the next page
                /\ pdf' = Append(drawn, PdfPage(c.layout.orientation))
                /\ exportCtx' = Some([c EXCEPT !.pageIdx = c.pageIdx + 1,
                                               !.i = 0])
                /\ UNCHANGED << exportPc, isGenerating, saved >>
           ELSE /\ pdf' = drawn
                /\ saved' = IF exportPc = "page"
                            THEN Some(<< "qris-merged-page", c.pageIndex + 1 >>)
                            ELSE Some(<< "qris-merged-all" >>)
                /\ exportPc' = "idle"
                /\ isGenerating' = FALSE
                /\ UNCHANGED exportCtx
    /\ UNCHANGED << mergedImages, printSize, imagesPerPage, pages, gridClass,
                    alerted, exportFailed, outsideLayout >>

\* Variant: the catch block still saves what has been drawn.
ImageLoadFailed_SavesPartial ==
    /\ exportPc # "idle"
    /\ exportFailed' = TRUE
    /\ alerted' = TRUE
    /\ saved' = Some(<< "qris-merged-all" >>)
    /\ exportPc' = "idle"
    /\ isGenerating' = FALSE
    /\ UNCHANGED << mergedImages, printSize, imagesPerPage, pages, gridClass,
                    exportCtx, pdf, outsideLayout >>

\* The awaited loadImage rejects: the catch block logs and alerts, pdf.save
\* is skipped, then setIsGenerating(false).
ImageLoadFailed ==
    /\ exportPc # "idle"
    /\ exportFailed' = TRUE
    /\ alerted' = TRUE
    /\ exportPc' = "idle"
    /\ isGenerating' = FALSE
    /\ UNCHANGED << mergedImages, printSize, imagesPerPage, pages, gridClass,
                    exportCtx, pdf, saved, outsideLayout >>

LayoutNext ==
    \/ \E v \in ImagesPerPageValues : SetImagesPerPage(v)
    \/ \E p \in 1..MaxMerged : StartPageExport(p)
    \/ StartAllExport
    \/ ImageLoaded
    \/ ImageLoadFailed

SpecLayout == LayoutInit /\ [][LayoutNext]_vars

\* ------------------------------------------ SettingsModal: JSON, pure parts
\* Pending auto-hide timers of the save indicator.
MaxTimers == 1

\* JavaScript values.
JsNull == [t |-> "null"]
JsUndefined == [t |-> "undefined"]
JsNumber(v) == [t |-> "number", v |-> v]
JsString(str) == [t |-> "string", s |-> str]
JsObject(members) == [t |-> "object", members |-> members]
Member(key, value) == [k |-> key, v |-> value]

\* JSON text, as the tree of its tokens; TGarbage is any text JSON.parse
\* rejects.
TGarbage == [t |-> "garbage"]
TNull == [t |-> "null"]
TNumber(lit) == [t |-> "number", lit |-> lit]
TString(str) == [t |-> "string", s |-> str]
TObject(members) == [t |-> "object", members |-> members]

\* Variant: the number is written without its fraction.
NumberLiteral_Truncated(v) ==
    [neg |-> v < 0, whole |-> Abs(v) \div Scale, frac |-> 0]

\* JSON.stringify of a finite number: sign, integer digits and the fraction
\* digits (here the numerator of the fraction over Scale).
NumberLiteral(v) ==
    [neg |-> v < 0, whole |-> Abs(v) \div Scale, frac |-> Abs(v) % Scale]

\* JSON.parse of a number literal.
ParseNumber(lit) ==
    (IF lit.neg THEN 0 - 1 ELSE 1) * (lit.whole * Scale + lit.frac)

\* JSON.stringify(value, null, 2) of the values the modal writes.
RECURSIVE Stringify(_)
Stringify(value) ==
    CASE value.t = "number" -> TNumber(NumberLiteral(value.v))
      [] value.t = "string" -> TString(value.s)
      [] value.t = "object" ->
            TObject([i \in 1..Len(value.members) |->
                        Member(value.members[i].k,
                               Stringify(value.members[i].v))])
      [] OTHER -> TNull

\* JSON.parse of a text that is valid JSON.
RECURSIVE ParseValue(_)
ParseValue(text) ==
    CASE text.t = "number" -> JsNumber(ParseNumber(text.lit))
      [] text.t = "string" -> JsString(text.s)
      [] text.t = "object" ->
            JsObject([i \in 1..Len(text.members) |->
                         Member(text.members[i].k,
                                ParseValue(text.members[i].v))])
      [] OTHER -> JsNull

\* value[key] for a value that is neither null nor undefined.
Get(value, key) ==
    IF value.t # "object" THEN JsUndefined
    ELSE LET hits == { i \in 1..Len(value.members) : value.members[i].k = key }
         IN  IF hits = {} THEN JsUndefined
             ELSE value.members[CHOOSE i \in hits : \A j \in hits : j <= i].v

\* The left operand of `||` is kept.
Truthy(value) ==
    CASE value.t = "object" -> TRUE
      [] value.t = "number" -> value.v # 0
      [] value.t = "string" -> value.s # ""
      [] OTHER -> FALSE

\* typeof value === 'number'
IsNumber(value) == value.t = "number"

NumberOr(value, other) == IF IsNumber(value) THEN value.v ELSE other

\* The object literal { x, y, width, height } of an AreaConfig.
AreaObject(a) ==
    JsObject(<< Member("x", JsNumber(a.x)), Member("y", JsNumber(a.y)),
                Member("width", JsNumber(a.width)),
                Member("height", JsNumber(a.height)) >>)

\* const exportData of handleExportConfig.
ExportData(a, now) ==
    JsObject(<< Member("areaConfig", AreaObject(a)),
                Member("exportedAt", JsString(now)) >>)

\* const settings of handleSave.
SettingsObject(frame, a) ==
    JsObject(<< Member("frameImage", JsString(frame)),
                Member("areaConfig", AreaObject(a)) >>)

\* Variant: only x and y are validated.
ImportOutcome_ChecksXYOnly(text) ==
    IF text.t = "garbage" \/ text.t = "null"
    THEN [kind |-> "unreadable", config |-> Null]
    ELSE LET data == ParseValue(text)
             inner == Get(data, "areaConfig")
             config == IF Truthy(inner) THEN inner ELSE data
         IN  IF /\ IsNumber(Get(config, "x"))
                /\ IsNumber(Get(config, "y"))
             THEN [kind |-> "accepted",
                   config |-> Some(Area(NumberOr(Get(config, "x"), 0),
                                        NumberOr(Get(config, "y"), 0),
                                        NumberOr(Get(config, "width"), 0),
                                        NumberOr(Get(config, "height"), 0)))]
             ELSE [kind |-> "invalid", config |-> Null]

\* reader.onload of handleImportConfig: JSON.parse throws on a text that is
\* not JSON, data.areaConfig throws on null; otherwise the four typeof tests
\* decide.
ImportOutcome(text) ==
    IF text.t = "garbage" \/ text.t = "null"
    THEN [kind |-> "unreadable", config |-> Null]
    ELSE LET data == ParseValue(text)
             inner == Get(data, "areaConfig")
             config == IF Truthy(inner) THEN inner ELSE data
         IN  IF /\ IsNumber(Get(config, "x"))
                /\ IsNumber(Get(config, "y"))
                /\ IsNumber(Get(config, "width"))
                /\ IsNumber(Get(config, "height"))
             THEN [kind |-> "accepted",
                   config |-> Some(Area(Get(config, "x").v,
                                        Get(config, "y").v,
                                        Get(config, "width").v,
                                        Get(config, "height").v))]
             ELSE [kind |-> "invalid", config |-> Null]

\* The effect of SettingsModal on [isOpen, savedSettings], which runs after
\* every render in which isOpen or the savedSettings prop is another value
\* than in the render before: the working frame and rectangle are loaded
\* from the saved settings, or else from localStorage, and the save-success
\* indicator is cleared whatever was loaded.
LoadSettingsEffect(isOpen, current, storage, frame, area) ==
    LET parsed == ParseValue(Val(storage))
        inner == Get(parsed, "areaConfig")
    IN  IF isOpen /\ ~IsNull(current)
        THEN [frameImage |-> Some(Val(current).frameImage),
              areaConfig |-> Some(Val(current).areaConfig),
              saveSuccess |-> FALSE]
        ELSE IF /\ isOpen
                /\ ~IsNull(storage)
                /\ Val(storage).t = "object"
        THEN [frameImage |-> Some(Get(parsed, "frameImage").s),
              areaConfig |-> Some(Area(Get(inner, "x").v, Get(inner, "y").v,
                                       Get(inner, "width").v,
                                       Get(inner, "height").v)),
              saveSuccess |-> FALSE]
        ELSE [frameImage |-> frame, areaConfig |-> area, saveSuccess |-> FALSE]

\* canSave.
CanSave ==
    /\ ~IsNull(frameImage)
    /\ ~IsNull(areaConfig)
    /\ Val(areaConfig).width > validThreshold
    /\ Val(areaConfig).height > validThreshold

\* ---------------------------------------------- SettingsModal: the inputs
FrameImages == { "frameA", "frameB" }
Timestamps == { "T1", "T2" }

\* Rectangles the area editor hands to onAreaChange, with and without
\* fractions of a percent.
ConfigAreas ==
    { Area(10 * Scale, 20 * Scale, 30 * Scale, 40 * Scale),
      Area(1, 3, 2 * Scale + 1, 50 * Scale + 1) }

\* Rectangles AreaSelector commits: those above, and one a resize from the
\* top-left corner of { 0, 0, 3, 100 } with the anchor 1.5 below the corner
\* grows beyond the frame.
GestureAreas ==
    ConfigAreas \cup { Area(0, 0, 3 * Scale, (203 * Scale) \div 2) }

NumText(v) == TNumber(NumberLiteral(v))

\* Files the user can pick for import, besides a file the modal exported.
ImportTexts ==
    { Stringify(ExportData(a, "T1")) : a \in ConfigAreas }
    \cup { Stringify(AreaObject(a)) : a \in ConfigAreas }
    \cup { TGarbage,
           TNull,
           \* height is missing
           TObject(<< Member("x", NumText(Scale)), Member("y", NumText(Scale)),
                      Member("width", NumText(50 * Scale)) >>),
           \* x is a string
           TObject(<< Member("x", TString("10")), Member("y", NumText(Scale)),
                      Member("width", NumText(50 * Scale)),
                      Member("height", NumText(50 * Scale)) >>),
           \* the wrapped rectangle lacks width and height
           TObject(<< Member("areaConfig",
                             TObject(<< Member("x", NumText(Scale)),
                                        Member("y", NumText(Scale)) >>)),
                      Member("exportedAt", TString("T1")) >>),
           \* areaConfig is null and the rectangle sits beside it
           TObject(<< Member("areaConfig", TNull),
                      Member("x", NumText(Scale + 1)),
                      Member("y", NumText(Scale)),
                      Member("width", NumText(50 * Scale)),
                      Member("height", NumText(50 * Scale)) >>),
           \* numbers outside the frame
           TObject(<< Member("x", NumText(0 - 5 * Scale)),
                      Member("y", NumText(Scale)),
                      Member("width", NumText(150 * Scale)),
                      Member("height", NumText(50 * Scale)) >>) }

\* ------------------------------------------------- SettingsModal: actions
editorRest == << dragMode, dragStart, tempArea, originalArea,
                 onAreaChangeCalls, event, pos, downArea, resetSinceDown,
                 gestures, windowListeners >>
layoutRest == << printSize, imagesPerPage, pages, gridClass, isGenerating,
                 exportPc, exportCtx, pdf, saved, alerted, exportFailed >>
outsideConfig == << editorRest, clampVars, mergeVars, passVars, layoutRest,
                   appVars >>

\* The modal opened with no saved settings and an empty localStorage.
ConfigInit ==
    /\ EditorInit
    /\ ClampIdle
    /\ MergeIdle
    /\ PassIdle
    /\ LayoutIdle
    /\ ConfigIdle
    /\ AppIdle

\* Variant: a new frame keeps the rectangle drawn on the old one.
HandleFrameUpload_KeepsRectangle(img) ==
    /\ frameImage' = Some(img)
    /\ saveSuccess' = FALSE
    /\ alertMsg' = Null
    /\ importedText' = Null
    /\ configEvent' = "upload"
    /\ UNCHANGED << areaConfig, hideTimers, savedSettings, stored, download,
                    exportedArea, mergedImages, outsideConfig >>

\* reader.onload of handleFrameUpload.
HandleFrameUpload(img) ==
    /\ frameImage' = Some(img)
    /\ areaConfig' = Null
    /\ saveSuccess' = FALSE
    /\ alertMsg' = Null
    /\ importedText' = Null
    /\ configEvent' = "upload"
    /\ UNCHANGED << hideTimers, savedSettings, stored, download, exportedArea,
                    mergedImages, outsideConfig >>

\* The onAreaChange prop handed to AreaSelector, which is rendered only
\* while there is a frame: a committed gesture hands it a rectangle, the
\* Reset button, rendered while there is a rectangle, hands it null.
OnAreaChange(area) ==
    /\ ~IsNull(frameImage)
    /\ IsNull(area) => ~IsNull(areaConfig)
    /\ areaConfig' = area
    /\ saveSuccess' = FALSE
    /\ alertMsg' = Null
    /\ importedText' = Null
    /\ configEvent' = "area"
    /\ UNCHANGED << frameImage, hideTimers, savedSettings, stored, download,
                    exportedArea, mergedImages,
                    outsideConfig >>

\* handleSave, with handleSettingsSave of App as its onSave; the button is
\* disabled unless canSave.  The handler sets saveSuccess to true and, through
\* onSave, hands the modal a new savedSettings object; the render that
\* follows shows the indicator and is followed by the effect on
\* [isOpen, savedSettings].
HandleSave ==
    /\ CanSave
    /\ hideTimers < MaxTimers
    /\ stored' = Some(Stringify(SettingsObject(Val(frameImage), Val(areaConfig))))
    /\ savedSettings' = Some([frameImage |-> Val(frameImage),
                              areaConfig |-> Val(areaConfig)])
    /\ mergedImages' = << >>
    /\ LET after == LoadSettingsEffect(TRUE, savedSettings', stored',
                                       frameImage, areaConfig)
       IN  /\ frameImage' = after.frameImage
           /\ areaConfig' = after.areaConfig
           /\ saveSuccess' = after.saveSuccess
    /\ hideTimers' = hideTimers + 1
    /\ alertMsg' = Null
    /\ importedText' = Null
    /\ configEvent' = "save"
    /\ UNCHANGED << download, exportedArea, outsideConfig >>

\* The setTimeout callback of handleSave.
HideSaveSuccess ==
    /\ hideTimers > 0
    /\ hideTimers' = hideTimers - 1
    /\ saveSuccess' = FALSE
    /\ alertMsg' = Null
    /\ importedText' = Null
    /\ configEvent' = "timer"
    /\ UNCHANGED << areaConfig, frameImage, savedSettings, stored, download,
                    exportedArea, mergedImages,
                    outsideConfig >>

\* handleExportConfig at time `now`.
HandleExportConfig(now) ==
    /\ ~IsNull(areaConfig)
    /\ ~IsNull(frameImage)
    /\ download' = Some(Stringify(ExportData(Val(areaConfig), now)))
    /\ exportedArea' = areaConfig
    /\ alertMsg' = Null
    /\ importedText' = Null
    /\ configEvent' = "export"
    /\ UNCHANGED << areaConfig, frameImage, saveSuccess, hideTimers,
                    savedSettings, stored, mergedImages, outsideConfig >>

\* handleImportConfig: reader.onload for a file with this text.  The handler
\* itself only starts the read and clears the input.
HandleImportConfig(text) ==
    /\ LET outcome == ImportOutcome(text)
       IN  CASE outcome.kind = "accepted" ->
                  /\ areaConfig' = outcome.config
                  /\ saveSuccess' = FALSE
                  /\ alertMsg' = Null
             [] outcome.kind = "invalid" ->
                  /\ alertMsg' = Some("Format file tidak valid.")
                  /\ UNCHANGED << areaConfig, saveSuccess >>
             [] OTHER ->
                  /\ alertMsg' = Some("Gagal membaca file.")
                  /\ UNCHANGED << areaConfig, saveSuccess >>
    /\ importedText' = Some(text)
    /\ configEvent' = "import"
    /\ UNCHANGED << frameImage, hideTimers, savedSettings, stored, download,
                    exportedArea, mergedImages, outsideConfig >>

\* handleRemoveFrame; its button is rendered only while there is a frame.
HandleRemoveFrame ==
    /\ ~IsNull(frameImage)
    /\ frameImage' = Null
    /\ areaConfig' = Null
    /\ saveSuccess' = FALSE
    /\ alertMsg' = Null
    /\ importedText' = Null
    /\ configEvent' = "remove"
    /\ UNCHANGED << hideTimers, savedSettings, stored, download, exportedArea,
                    mergedImages, outsideConfig >>

ConfigNext ==
    \/ \E img \in FrameImages : HandleFrameUpload(img)
    \/ \E a \in GestureAreas : OnAreaChange(Some(a))
    \/ OnAreaChange(Null)
    \/ HandleSave
    \/ HideSaveSuccess
    \/ \E now \in Timestamps : HandleExportConfig(now)
    \/ \E text \in ImportTexts \cup (IF IsNull(download) THEN {} ELSE { Val(download) }) :
          HandleImportConfig(text)
    \/ HandleRemoveFrame

SpecConfig == ConfigInit /\ [][ConfigNext]_vars

\* ------------------------------------------- App and ImageMerger: pure parts
\* Source images uploaded over a run.
MaxUploads == 2

\* mergeImages calls suspended at the same time.
MaxInFlight == 2

\* An AreaConfig object: useEffect compares its dependencies with Object.is,
\* so two objects with equal fields are different dependencies.
AreaRef(ref, a) == [ref |-> ref, value |-> a]

\* The settings objects handleSave can hand to onSave: the same rectangle
\* object again, an equal rectangle in a new object, another frame.
SettingsInputs ==
    LET a == Area(10 * Scale, 20 * Scale, 30 * Scale, 40 * Scale)
    IN  { [frameImage |-> "frameA", areaConfig |-> AreaRef(1, a)],
          [frameImage |-> "frameA", areaConfig |-> AreaRef(2, a)],
          [frameImage |-> "frameB", areaConfig |-> AreaRef(1, a)] }

\* hasSettings && qrisImages.length > 0: ImageMerger is rendered.
MergerMounted(settings, images) == ~IsNull(settings) /\ Len(images) > 0

\* The effect of ImageMerger runs on mount and when frameImage, qrisImages
\* or areaConfig is not Object.is-equal to that of the previous render.
\* setQrisImages always stores a new array.
EffectRuns(oldSettings, oldImages, newSettings, newImages, newArray) ==
    /\ MergerMounted(newSettings, newImages)
    /\ \/ ~MergerMounted(oldSettings, oldImages)
       \/ newArray
       \/ Val(newSettings).frameImage # Val(oldSettings).frameImage
       \/ Val(newSettings).areaConfig.ref # Val(oldSettings).areaConfig.ref

\* mergeImages up to `await loadImage(frameImage)`, with the props of the
\* render it was called in.
NewPass(settings, images) ==
    [frameImage |-> Val(settings).frameImage,
     areaConfig |-> Val(settings).areaConfig.value,
     qrisImages |-> images,
     pc |-> "frame",
     i |-> 0,
     mergedResults |-> << >>]

\* The data URL of one composite: what was drawn on the canvas.
MergedDataUrl(frame, a, id) == [frame |-> frame, area |-> a, qris |-> id]

\* The composites of a frame, a rectangle and a source set.
CompositesOf(frame, a, images) ==
    [k \in 1..Len(images) |-> MergedDataUrl(frame, a, images[k])]

\* ctx.drawImage(frameImg, 0, 0)
DrawFrameOn(c, frame) == [c EXCEPT !.frame = frame]

\* ctx.drawImage(qrisImg, drawX, drawY, drawWidth, drawHeight), the
\* rectangle being the aspect fit into the target area.
DrawQrisOn(c, a, id) == [c EXCEPT !.area = a, !.qris = id]

\* canvas.toDataURL('image/png', 1.0): the picture on the canvas.
ToDataURL(c) == MergedDataUrl(c.frame, c.area, c.qris)

\* Variant: the canvas is encoded as the step found it, as if the pass had
\* been suspended between its drawing and the encoding.
CompositeOnCanvas_EncodesFoundCanvas(c, frame, a, id) ==
    LET drawn == DrawQrisOn(DrawFrameOn(BlankCanvas, frame), a, id)
    IN  [canvas |-> drawn, url |-> ToDataURL(c)]

\* The body of the try block after the source image has loaded: resize and
\* clear the canvas, draw the frame, draw the source, encode.  There is no
\* await in it.  Every pass holds the canvas element of the ImageMerger that
\* started it; the model lets all passes in flight draw on one canvas, which
\* is the case of passes started by one mounted ImageMerger.
CompositeOnCanvas(c, frame, a, id) ==
    LET drawn == DrawQrisOn(DrawFrameOn(BlankCanvas, frame), a, id)
    IN  [canvas |-> drawn, url |-> ToDataURL(drawn)]

\* Variant: a report is appended to what the application holds.
HandleMergedImagesReady_Appends(held, images) == held \o images

\* handleMergedImagesReady: setMergedImages(images).
HandleMergedImagesReady(held, images) == images

RemoveAt(seq, k) == SubSeq(seq, 1, k - 1) \o SubSeq(seq, k + 1, Len(seq))

\* prev.filter(img => img.id !== id)
FilterOut(images, id) ==
    LET RECURSIVE Go(_)
        Go(k) == IF k > Len(images) THEN << >>
                 ELSE (IF images[k] = id THEN << >> ELSE << images[k] >>)
                      \o Go(k + 1)
    IN  Go(1)

\* An uploaded image whose object URL has been revoked.
Revoked(id) == \A k \in 1..Len(qrisImages) : qrisImages[k] # id

\* ----------------------------------------------- App and ImageMerger: actions
passRest == << passPc, decoded, mergedResults, reported >>
configRest == << frameImage, saveSuccess, hideTimers, stored, alertMsg,
                 download, exportedArea, importedText, configEvent >>
outsideApp == << editorVars, clampVars, mergeVars, passRest, layoutRest,
                 configRest >>

\* App after its mount effect found nothing in localStorage.
AppInit ==
    /\ EditorInit
    /\ ClampIdle
    /\ MergeIdle
    /\ PassIdle
    /\ LayoutIdle
    /\ ConfigIdle
    /\ AppIdle

\* handleQrisUpload with n files, the render and the effect of ImageMerger.
HandleQrisUpload(n) ==
    LET newImages == qrisImages \o [k \in 1..n |-> nextId + k - 1]
        runs == EffectRuns(savedSettings, qrisImages, savedSettings,
                           newImages, TRUE)
    IN  /\ nextId + n - 1 <= MaxUploads
        /\ runs => Len(inFlight) < MaxInFlight
        /\ qrisImages' = newImages
        /\ nextId' = nextId + n
        /\ inFlight' = IF runs
                       THEN Append(inFlight, NewPass(savedSettings, newImages))
                       ELSE inFlight
        /\ appEvent' = "upload"
        /\ lastReport' = Null
        /\ canvas' = canvas
        /\ UNCHANGED << mergedImages, savedSettings, outsideApp >>

\* removeQrisImage, the render and the effect of ImageMerger.
RemoveQrisImage(id) ==
    LET newImages == FilterOut(qrisImages, id)
        runs == EffectRuns(savedSettings, qrisImages, savedSettings,
                           newImages, TRUE)
    IN  /\ \E k \in 1..Len(qrisImages) : qrisImages[k] = id
        /\ runs => Len(inFlight) < MaxInFlight
        /\ qrisImages' = newImages
        /\ inFlight' = IF runs
                       THEN Append(inFlight, NewPass(savedSettings, newImages))
                       ELSE inFlight
        /\ appEvent' = "remove"
        /\ lastReport' = Null
        /\ canvas' = canvas
        /\ UNCHANGED << mergedImages, savedSettings, nextId, outsideApp >>

\* handleSettingsSave, the render and the effect of ImageMerger.
HandleSettingsSave(settings) ==
    LET runs == EffectRuns(savedSettings, qrisImages, Some(settings),
                           qrisImages, FALSE)
    IN  /\ runs => Len(inFlight) < MaxInFlight
        /\ savedSettings' = Some(settings)
        /\ mergedImages' = << >>
        /\ inFlight' = IF runs
                       THEN Append(inFlight, NewPass(Some(settings), qrisImages))
                       ELSE inFlight
        /\ appEvent' = "save"
        /\ lastReport' = Null
        /\ canvas' = canvas
        /\ UNCHANGED << qrisImages, nextId, outsideApp >>

\* clearAll; its button is rendered with ImageMerger, which is unmounted by
\* the render that follows.
ClearAll ==
    /\ MergerMounted(savedSettings, qrisImages)
    /\ qrisImages' = << >>
    /\ mergedImages' = << >>
    /\ appEvent' = "clear"
    /\ lastReport' = Null
    /\ canvas' = canvas
    /\ UNCHANGED << savedSettings, inFlight, nextId, outsideApp >>

\* `await loadImage(frameImage)` of pass k resolves; the pass goes on to the
\* load of its first source image.
FrameImageLoaded(k) ==
    /\ k \in 1..Len(inFlight)
    /\ inFlight[k].pc = "frame"
    /\ inFlight' = [inFlight EXCEPT ![k].pc = "qris"]
    /\ appEvent' = "frame"
    /\ lastReport' = Null
    /\ canvas' = canvas
    /\ UNCHANGED << qrisImages, mergedImages, savedSettings, nextId,
                    outsideApp >>

\* `await loadImage(qrisImage.preview)` of pass k settles.  An image that is
\* still uploaded decodes; one whose URL was revoked meanwhile may fail.
\* After the last source the pass calls onMergedImagesReady and ends.
QrisImageSettled(k, ok) ==
    /\ k \in 1..Len(inFlight)
    /\ inFlight[k].pc = "qris"
    /\ LET pass == inFlight[k]
           id == pass.qrisImages[pass.i + 1]
           step == CompositeOnCanvas(canvas, pass.frameImage,
                                     pass.areaConfig, id)
           results == IF ok THEN Append(pass.mergedResults, step.url)
                      ELSE pass.mergedResults
       IN  /\ ~ok => Revoked(id)
           /\ canvas' = IF ok THEN step.canvas ELSE canvas
           /\ IF pass.i + 1 < Len(pass.qrisImages)
              THEN /\ inFlight' = [inFlight EXCEPT ![k].i = pass.i + 1,
                                                   ![k].mergedResults = results]
                   /\ appEvent' = "qris"
                   /\ lastReport' = Null
                   /\ UNCHANGED mergedImages
              ELSE /\ inFlight' = RemoveAt(inFlight, k)
                   /\ mergedImages' = HandleMergedImagesReady(mergedImages, results)
                   /\ lastReport' = Some(results)
                   /\ appEvent' = "report"
    /\ UNCHANGED << qrisImages, savedSettings, nextId, outsideApp >>

AppNext ==
    \/ \E n \in 1..2 : HandleQrisUpload(n)
    \/ \E id \in 1..MaxUploads : RemoveQrisImage(id)
    \/ \E settings \in SettingsInputs : HandleSettingsSave(settings)
    \/ ClearAll
    \/ \E k \in 1..MaxInFlight : FrameImageLoaded(k)
    \/ \E k \in 1..MaxInFlight : \E ok \in BOOLEAN : QrisImageSettled(k, ok)

SpecApp == AppInit /\ [][AppNext]_vars

\* ================================================================ properties
\* The rectangle invariants of the data model.
RectInvariant(r) ==
    /\ 0 <= r.x /\ 0 <= r.y
    /\ r.x + r.width <= Full /\ r.y + r.height <= Full

\* width <= 1 or height <= 1.
Degenerate(r) == r.width <= validThreshold \/ r.height <= validThreshold

Clamp(v, lo, hi) == Max(lo, Min(hi, v))

\* C1: after any sequence of gestures and resets the persisted rectangle is
\* none or satisfies 0 <= x, 0 <= y, x + width <= 100, y + height <= 100.
C1_PersistedInBounds ==
    IsNull(areaConfig) \/ RectInvariant(Val(areaConfig))

\* C2: a gesture whose final candidate is absent or has width <= 1 or
\* height <= 1 leaves the persisted rectangle as it was at pointer-down and
\* makes no area-changed call.
C2_DegenerateGestureIsNoOp ==
    [][ ( /\ event' = "up"
          /\ ~resetSinceDown
          /\ (IsNull(tempArea) \/ Degenerate(Val(tempArea))) )
        => ( /\ areaConfig' = downArea
             /\ areaConfig' = areaConfig
             /\ onAreaChangeCalls' = << >> ) ]_vars

\* A pointer-up that committed nothing, on an existing rectangle.
C2_Witness ==
    /\ event = "up"
    /\ onAreaChangeCalls = << >>
    /\ ~resetSinceDown
    /\ ~IsNull(downArea)
    /\ areaConfig = downArea

\* C3: on pointer-up with a candidate of width > 1 and height > 1 the
\* persisted rectangle becomes exactly that candidate through exactly one
\* area-changed call, and every rectangle a pointer-up commits has
\* width > 1 and height > 1.
C3_ValidCandidateCommitted ==
    [][ /\ ( /\ event' = "up"
             /\ ~IsNull(tempArea)
             /\ Val(tempArea).width > validThreshold
             /\ Val(tempArea).height > validThreshold )
           => ( /\ areaConfig' = tempArea
                /\ onAreaChangeCalls' = << tempArea >> )
        /\ (event' = "up" /\ onAreaChangeCalls' # << >>)
           => ( /\ Len(onAreaChangeCalls') = 1
                /\ onAreaChangeCalls'[1] = areaConfig'
                /\ ~IsNull(areaConfig')
                /\ Val(areaConfig').width > validThreshold
                /\ Val(areaConfig').height > validThreshold ) ]_vars

\* A pointer-up that replaced an existing rectangle by another one.
C3_Witness ==
    /\ event = "up"
    /\ onAreaChangeCalls = << areaConfig >>
    /\ ~IsNull(areaConfig)
    /\ ~IsNull(downArea)
    /\ areaConfig # downArea

\* The corner opposite to the dragged one.
OppositeCorner(mode, r) ==
    CASE mode = "resize-tl" -> Point(r.x + r.width, r.y + r.height)
      [] mode = "resize-tr" -> Point(r.x, r.y + r.height)
      [] mode = "resize-bl" -> Point(r.x + r.width, r.y)
      [] mode = "resize-br" -> Point(r.x, r.y)

\* The state right after a pointer-move of a resize gesture.
AfterResizeMove ==
    /\ event = "move"
    /\ dragMode \in ResizeModes
    /\ ~IsNull(originalArea)

\* C4: during a resize from any corner the opposite corner of the candidate
\* stays where it was in the original rectangle, for every pointer position.
C4_OppositeCornerFixed ==
    AfterResizeMove =>
        OppositeCorner(dragMode, Val(tempArea))
            = OppositeCorner(dragMode, Val(originalArea))

\* The candidate of a resize as the pointer delta alone gives it.
C5_Expected(mode, o, dx, dy) ==
    CASE mode = "resize-tl" -> Area(o.x + dx, o.y + dy, o.width - dx, o.height - dy)
      [] mode = "resize-tr" -> Area(o.x, o.y + dy, o.width + dx, o.height - dy)
      [] mode = "resize-bl" -> Area(o.x + dx, o.y, o.width - dx, o.height + dy)
      [] mode = "resize-br" -> Area(o.x, o.y, o.width + dx, o.height + dy)

\* Neither the minimum-size floor nor the position clamp changes r.
C5_Unclamped(r) ==
    /\ r.width >= minSize /\ r.height >= minSize
    /\ 0 <= r.x /\ r.x <= Full - r.width
    /\ 0 <= r.y /\ r.y <= Full - r.height

\* C5: when neither the floor nor the clamp applies, a resize by the pointer
\* delta (dx,dy) gives tl -> x+dx, y+dy, width-dx, height-dy; tr -> y+dy,
\* width+dx, height-dy; bl -> x+dx, width-dx, height+dy; br -> width+dx,
\* height+dy; and tl on {10,10,40,40} with delta (+5,+5) gives {15,15,35,35}.
C5_ResizeByDelta ==
    /\ AfterResizeMove =>
          LET e == C5_Expected(dragMode, Val(originalArea),
                               Val(pos).x - Val(dragStart).x,
                               Val(pos).y - Val(dragStart).y)
          IN  C5_Unclamped(e) => tempArea = Some(e)
    /\ ResizeArea("resize-tl",
                  Area(10 * Scale, 10 * Scale, 40 * Scale, 40 * Scale),
                  Point(10 * Scale, 10 * Scale), Point(15 * Scale, 15 * Scale))
          = Area(15 * Scale, 15 * Scale, 35 * Scale, 35 * Scale)

\* A resize from the top-right corner that moved on both axes, unclamped.
C5_Witness ==
    /\ AfterResizeMove
    /\ dragMode = "resize-tr"
    /\ Val(pos).x # Val(dragStart).x
    /\ Val(pos).y # Val(dragStart).y
    /\ C5_Unclamped(C5_Expected(dragMode, Val(originalArea),
                                Val(pos).x - Val(dragStart).x,
                                Val(pos).y - Val(dragStart).y))

\* The state right after a pointer-move of a move gesture.
AfterMoveMove ==
    /\ event = "move"
    /\ dragMode = "move"
    /\ ~IsNull(originalArea)

\* C6: moving a rectangle that satisfies the invariants keeps its width and
\* height, puts x at clamp(x + dx, 0, 100 - width) and y at
\* clamp(y + dy, 0, 100 - height), and keeps it inside the space.
C6_MoveClamped ==
    (AfterMoveMove /\ RectInvariant(Val(originalArea))) =>
        LET o == Val(originalArea)
            dx == Val(pos).x - Val(dragStart).x
            dy == Val(pos).y - Val(dragStart).y
            t == Val(tempArea)
        IN  /\ t.width = o.width
            /\ t.height = o.height
            /\ t.x = Clamp(o.x + dx, 0, Full - o.width)
            /\ t.y = Clamp(o.y + dy, 0, Full - o.height)
            /\ RectInvariant(t)

\* A move whose translation was capped at the far edge.
C6_Witness ==
    /\ AfterMoveMove
    /\ RectInvariant(Val(originalArea))
    /\ Val(originalArea).x + (Val(pos).x - Val(dragStart).x)
          > Full - Val(originalArea).width
    /\ Val(tempArea).x + Val(tempArea).width = Full

\* C7: during a draw every pointer-move sets the candidate to
\* x = min(anchor.x,pos.x), y = min(anchor.y,pos.y), width = |pos.x-anchor.x|,
\* height = |pos.y-anchor.y|, which satisfies the rectangle invariants.
C7_DrawNormalized ==
    (event = "move" /\ dragMode = "draw") =>
        LET a == Val(dragStart)
            p == Val(pos)
            t == Val(tempArea)
        IN  /\ t.x = (IF a.x <= p.x THEN a.x ELSE p.x)
            /\ t.y = (IF a.y <= p.y THEN a.y ELSE p.y)
            /\ t.width = (IF p.x >= a.x THEN p.x - a.x ELSE a.x - p.x)
            /\ t.height = (IF p.y >= a.y THEN p.y - a.y ELSE a.y - p.y)
            /\ t.width >= 0 /\ t.height >= 0
            /\ RectInvariant(t)

\* A draw dragged to the left and upwards of its anchor.
C7_Witness ==
    /\ event = "move"
    /\ dragMode = "draw"
    /\ Val(pos).x < Val(dragStart).x
    /\ Val(pos).y < Val(dragStart).y

\* The resize modes whose corner is within 3 of p on both axes.
C8_NearModes(p, a) ==
    { m \in ResizeModes :
        LET cx == IF m \in { "resize-tl", "resize-bl" } THEN a.x ELSE a.x + a.width
            cy == IF m \in { "resize-tl", "resize-tr" } THEN a.y ELSE a.y + a.height
        IN  /\ p.x - cx < 3 * Scale /\ cx - p.x < 3 * Scale
            /\ p.y - cy < 3 * Scale /\ cy - p.y < 3 * Scale }

C8_Inside(p, a) ==
    /\ a.x <= p.x /\ p.x <= a.x + a.width
    /\ a.y <= p.y /\ p.y <= a.y + a.height

C8_ModeRank(m) ==
    CASE m = "resize-tl" -> 1 [] m = "resize-tr" -> 2
      [] m = "resize-bl" -> 3 [] m = "resize-br" -> 4

\* C8: pointer-down with no rectangle enters drawing with anchor = pos and a
\* zero-size candidate at pos; with a rectangle, a position within 3 of a
\* corner on both axes enters a matching resize mode (the first of tl, tr,
\* bl, br), before the interior test and also outside the rectangle;
\* otherwise a position inside (boundary included) enters moving, otherwise
\* drawing; the persisted rectangle is not changed.
C8_PointerDownMode ==
    event = "down" =>
        LET p == Val(pos) IN
        /\ areaConfig = downArea
        /\ dragStart = Some(p)
        /\ IF IsNull(downArea)
           THEN /\ dragMode = "draw"
                /\ tempArea = Some(Area(p.x, p.y, 0, 0))
           ELSE LET a == Val(downArea)
                    near == C8_NearModes(p, a)
                IN  /\ originalArea = downArea
                    /\ near # {} =>
                          /\ dragMode \in near
                          /\ \A m \in near : C8_ModeRank(dragMode) <= C8_ModeRank(m)
                    /\ (near = {} /\ C8_Inside(p, a)) => dragMode = "move"
                    /\ (near = {} /\ ~C8_Inside(p, a)) =>
                          /\ dragMode = "draw"
                          /\ tempArea = Some(Area(p.x, p.y, 0, 0))

\* A pointer-down near a corner from outside the rectangle, which resizes.
C8_Witness ==
    /\ event = "down"
    /\ ~IsNull(downArea)
    /\ dragMode \in ResizeModes
    /\ ~C8_Inside(Val(pos), Val(downArea))

\* C9: the floor-and-clamp step of the resize path, applied to any rectangle
\* with width > 1 and height > 1, yields a rectangle satisfying the rectangle
\* invariants, and applying it twice gives the same as applying it once.
C9_ClampYieldsInvariant ==
    (~IsNull(clampArg) /\ ~Degenerate(Val(clampArg))) =>
        /\ \A i \in 1..Len(clampRes) : RectInvariant(clampRes[i])
        /\ Len(clampRes) = 2 => clampRes[2] = clampRes[1]

\* a/ad <= b/bd for positive denominators.
FracLeq(a, ad, b, bd) == a * bd <= b * ad

\* C10: for every source size and every target rectangle with positive
\* width and height, the draw rectangle keeps the source aspect ratio
\* (drawW * Sh = drawH * Sw) and lies inside the target rectangle.
C10_FitInsideTarget ==
    ~IsNull(drawRect) =>
        LET q == Val(qrisImg)
            t == TargetArea(Val(mergeArea), Val(frameImg))
            d == Val(drawRect)
        IN  (t.width > 0 /\ t.height > 0) =>
            /\ d.den > 0
            /\ d.width * q.height = d.height * q.width
            /\ FracLeq(t.x, t.den, d.x, d.den)
            /\ FracLeq(t.y, t.den, d.y, d.den)
            /\ FracLeq(d.x + d.width, d.den, t.x + t.width, t.den)
            /\ FracLeq(d.y + d.height, d.den, t.y + t.height, t.den)

\* A source wider than the target, drawn with margins above and below.
C10_Witness ==
    /\ ~IsNull(drawRect)
    /\ Val(qrisImg).width * Val(mergeArea).height * Val(frameImg).height
          > Val(mergeArea).width * Val(frameImg).width * Val(qrisImg).height
    /\ Val(drawRect).y * Full
          > Val(mergeArea).y * Val(frameImg).height * Val(drawRect).den

\* a/ad = b/bd for positive denominators.
FracEq(a, ad, b, bd) == a * bd = b * ad

\* C11: the target rectangle in pixels is the percentage rectangle scaled
\* per axis by the frame size; if Sw/Sh > w/h then drawW = w,
\* drawH = w / (Sw/Sh), drawX = x, drawY = y + (h - drawH)/2, else drawH = h,
\* drawW = h * (Sw/Sh), drawY = y, drawX = x + (w - drawW)/2; target
\* {100,100,100,200} with a 200x100 source gives drawW = 100, drawH = 50,
\* drawX = 100, drawY = 175.
C11_AspectFitResult ==
    /\ ~IsNull(targetArea) =>
          LET a == Val(mergeArea)
              f == Val(frameImg)
              t == Val(targetArea)
          IN  \* t = (a / 100) * frame size, per axis
              /\ t.den > 0
              /\ t.x * 100 * Scale = a.x * f.width * t.den
              /\ t.y * 100 * Scale = a.y * f.height * t.den
              /\ t.width * 100 * Scale = a.width * f.width * t.den
              /\ t.height * 100 * Scale = a.height * f.height * t.den
    /\ ~IsNull(drawRect) =>
          LET q == Val(qrisImg)
              t == Val(targetArea)
              d == Val(drawRect)
          IN  IF q.width * t.height > t.width * q.height
              THEN /\ FracEq(d.width, d.den, t.width, t.den)
                   /\ FracEq(d.height * q.width, d.den, t.width * q.height, t.den)
                   /\ FracEq(d.x, d.den, t.x, t.den)
                   \* 2 * (drawY - y) = h - drawH
                   /\ 2 * (d.y * t.den - t.y * d.den)
                         = t.height * d.den - d.height * t.den
              ELSE /\ FracEq(d.height, d.den, t.height, t.den)
                   /\ FracEq(d.width * q.height, d.den, t.height * q.width, t.den)
                   /\ FracEq(d.y, d.den, t.y, t.den)
                   \* 2 * (drawX - x) = w - drawW
                   /\ 2 * (d.x * t.den - t.x * d.den)
                         = t.width * d.den - d.width * t.den
    /\ LET t == TargetArea(Area(25 * Scale, 25 * Scale, 25 * Scale, 50 * Scale),
                           Size(400, 400))
           d == AspectFit(Size(200, 100), t)
       IN  /\ t.x = 100 * t.den /\ t.y = 100 * t.den
           /\ t.width = 100 * t.den /\ t.height = 200 * t.den
           /\ d.width = 100 * d.den /\ d.height = 50 * d.den
           /\ d.x = 100 * d.den /\ d.y = 175 * d.den

\* A source taller than the target, drawn with margins left and right.
C11_Witness ==
    /\ ~IsNull(drawRect)
    /\ ~QrisIsWider(Val(qrisImg), Val(targetArea))
    /\ Val(drawRect).x * Val(targetArea).den
          > Val(targetArea).x * Val(drawRect).den

\* The index of the j-th source that decoded.
C12_NthDecoded(j) ==
    CHOOSE i \in 1..Len(decoded) :
        /\ decoded[i]
        /\ Cardinality({ k \in 1..i : decoded[k] }) = j

\* C12: a pass over N sources of which k fail to decode, the frame having
\* decoded, reports exactly N - k composites, one per decoded source and in
\* the order of the sources; a failure does not abort the rest of the pass.
C12_PassSkipsFailures ==
    /\ passPc = "done" =>
          LET n == Len(qrisImages)
              k == Cardinality({ i \in 1..Len(decoded) : ~decoded[i] })
          IN  /\ Len(decoded) = n
              /\ ~IsNull(reported)
              /\ Len(Val(reported)) = n - k
              /\ \A j \in 1..Len(Val(reported)) :
                    Val(reported)[j] = [qris |-> qrisImages[C12_NthDecoded(j)]]
    /\ passPc \in { "idle", "frame", "loop" } => IsNull(reported)

\* A finished pass in which a source decoded after an earlier one failed.
C12_Witness ==
    /\ passPc = "done"
    /\ \E i, j \in 1..Len(decoded) : i < j /\ ~decoded[i] /\ decoded[j]
    /\ Len(Val(reported)) >= 2

\* ---------------------------------------------------------------- C13
SeqSum(lens) ==
    LET RECURSIVE Go(_)
        Go(k) == IF k = 0 THEN 0 ELSE lens[k] + Go(k - 1)
    IN  Go(Len(lens))

\* ps cuts images into consecutive chunks of perPage, the last one shorter
\* or equal and never empty.
IsChunking(images, perPage, ps) ==
    /\ Len(ps) = CeilDiv(Len(images), perPage)
    /\ \A k \in 1..Len(ps) :
          /\ k < Len(ps) => Len(ps[k]) = perPage
          /\ Len(ps[k]) \in 1..perPage
          /\ \A j \in 1..Len(ps[k]) : ps[k][j] = images[(k - 1) * perPage + j]
    /\ SeqSum([k \in 1..Len(ps) |-> Len(ps[k])]) = Len(images)

\* C13: the rendered pages are the consecutive chunks of the merged images:
\* ceil(N / imagesPerPage) pages, all but the last of exactly imagesPerPage
\* images, the last of 1..imagesPerPage, their concatenation the original
\* sequence; ten images at four per page give pages of 4, 4 and 2.
C13_PagesAreChunks ==
    /\ IsChunking(mergedImages, imagesPerPage, pages)
    /\ LET ten == Pages([i \in 1..10 |-> i], 4)
       IN  [k \in 1..Len(ten) |-> Len(ten[k])] = << 4, 4, 2 >>

C13_Witness ==
    /\ Len(mergedImages) = 10
    /\ imagesPerPage = 4
    /\ Len(pages) = 3
    /\ Len(pages[3]) = 2

\* ---------------------------------------------------------------- C14
ColsOfClass(cls) ==
    CASE cls = "grid-cols-1" -> 1
      [] cls = "grid-cols-2" -> 2
      [] cls = "grid-cols-3" -> 3
      [] OTHER -> 0

ListedPerPage == { 1, 2, 4, 6 }

ListedCols(perPage) ==
    CASE perPage = 1 -> 1
      [] perPage = 2 -> 2
      [] perPage = 4 -> 2
      [] perPage = 6 -> 3

ListedRows(perPage) ==
    CASE perPage = 1 -> 1
      [] perPage = 2 -> 1
      [] perPage = 4 -> 2
      [] perPage = 6 -> 2

\* C14: for 1, 2, 4 and 6 images per page the grid has 1, 2, 2 and 3 columns
\* and ceil(imagesPerPage / cols) = 1, 1, 2 and 2 rows, and the on-screen
\* grid, the single-page export and the whole-document export agree on the
\* column count.
C14_ListedGrid ==
    /\ imagesPerPage \in ListedPerPage
          => ColsOfClass(gridClass) = ListedCols(imagesPerPage)
    /\ ~IsNull(exportCtx) /\ Val(exportCtx).layout.imagesPerPage \in ListedPerPage
          => LET c == Val(exportCtx).layout
             IN  /\ c.cols = ListedCols(c.imagesPerPage)
                 /\ c.rows = ListedRows(c.imagesPerPage)
                 /\ c.rows = CeilDiv(c.imagesPerPage, c.cols)
                 /\ c.cols = ColsOfClass(GetGridClass(c.imagesPerPage))
    /\ \A v \in ListedPerPage :
          /\ PageCols(v) = AllCols(v)
          /\ PageCols(v) = ColsOfClass(GetGridClass(v))

C14_Witness ==
    /\ ~IsNull(exportCtx)
    /\ Val(exportCtx).kind = "all"
    /\ Val(exportCtx).layout.imagesPerPage = 6
    /\ imagesPerPage = 6
    /\ ~IsNull(saved)

\* ---------------------------------------------------------------- C15
\* C15: for any other imagesPerPage the layout falls back to two columns, in
\* the on-screen grid and in both PDF exports.
C15_FallbackTwoColumns ==
    /\ imagesPerPage \notin ListedPerPage => ColsOfClass(gridClass) = 2
    /\ ~IsNull(exportCtx) /\ Val(exportCtx).layout.imagesPerPage \notin ListedPerPage
          => Val(exportCtx).layout.cols = 2

\* ---------------------------------------------------------------- C16
OrientationInv ==
    ~IsNull(exportCtx) =>
        LET c == Val(exportCtx).layout
        IN  /\ c.orientation = "landscape" <=> c.imagesPerPage >= 2
            /\ c.orientation \in { "landscape", "portrait" }
            /\ c.orientation = "landscape"
                  => c.pageWidth = 297 /\ c.pageHeight = 210
            /\ c.orientation = "portrait"
                  => c.pageWidth = 210 /\ c.pageHeight = 297
            /\ \A p \in 1..Len(pdf) : pdf[p].orientation = c.orientation

ExportStarts == ~isGenerating /\ isGenerating'

\* C16: an export is landscape (297 x 210) exactly when imagesPerPage >= 2
\* and portrait (210 x 297) otherwise; the orientation is computed from the
\* imagesPerPage of the moment the export is called, and every page of the
\* document has it.
C16_Orientation ==
    /\ []OrientationInv
    /\ [][ExportStarts =>
              /\ Val(exportCtx').layout.imagesPerPage = imagesPerPage
              /\ pdf'[1].orientation
                    = (IF imagesPerPage >= 2 THEN "landscape" ELSE "portrait")]_vars

C16_Witness ==
    /\ ~IsNull(exportCtx)
    /\ Val(exportCtx).kind = "all"
    /\ Val(exportCtx).layout.orientation = "portrait"
    /\ Len(pdf) >= 2
    /\ imagesPerPage = 2

\* ---------------------------------------------------------------- C17
QEq(a, b) == a.n * b.d = b.n * a.d

\* The cell of image i (from 0) in the grid of layout c.
CellOf(c, i) ==
    [x |-> QAdd(QInt(c.padding), QMul(QInt(i % c.cols), c.cellWidth)),
     y |-> QAdd(QInt(c.padding), QMul(QInt(i \div c.cols), c.cellHeight)),
     width |-> c.cellWidth,
     height |-> c.cellHeight]

QRight(r) == QAdd(r.x, r.width)
QBottom(r) == QAdd(r.y, r.height)

StrictlyInside(r, cell) ==
    /\ QLt(cell.x, r.x)
    /\ QLt(cell.y, r.y)
    /\ QLt(QRight(r), QRight(cell))
    /\ QLt(QBottom(r), QBottom(cell))

Disjoint(r, s) ==
    \/ QLe(QRight(r), s.x)
    \/ QLe(QRight(s), r.x)
    \/ QLe(QBottom(r), s.y)
    \/ QLe(QBottom(s), r.y)

PlacedWell(c, i, r, img) ==
    LET cell == CellOf(c, i)
        cap == Q(99, 100)
    IN  /\ i \div c.cols < c.rows
        /\ StrictlyInside(r, cell)
        /\ QLe(QInt(c.padding), r.x)
        /\ QLe(QInt(c.padding), r.y)
        /\ QLe(QRight(r), QInt(c.pageWidth - c.padding))
        /\ QLe(QBottom(r), QInt(c.pageHeight - c.padding))
        \* aspect ratio kept
        /\ r.width.n * r.height.d * img.height
              = r.height.n * r.width.d * img.width
        \* fitted into 0.99 of the cell
        /\ QLe(r.width, QMul(c.cellWidth, cap))
        /\ QLe(r.height, QMul(c.cellHeight, cap))
        /\ \/ QEq(r.width, QMul(c.cellWidth, cap))
           \/ QEq(r.height, QMul(c.cellHeight, cap))
        \* centred in the cell
        /\ QEq(QSub(r.x, cell.x), QSub(QRight(cell), QRight(r)))
        /\ QEq(QSub(r.y, cell.y), QSub(QBottom(cell), QBottom(r)))

\* C17: image i of a PDF page lies in the cell of row floor(i / cols) and
\* column i mod cols of the grid that divides the page less 3 mm of padding;
\* its rectangle is the aspect fit into 0.99 of the cell, centred, so it is
\* strictly inside its cell and inside the padded area, its row is below
\* rows, and no two images of a page overlap.
C17_Placement ==
    ~IsNull(exportCtx) =>
        LET c == Val(exportCtx).layout
        IN  /\ c.padding = 3
            /\ QEq(QMul(QInt(c.cols), c.cellWidth), QInt(c.pageWidth - 6))
            /\ QEq(QMul(QInt(c.rows), c.cellHeight), QInt(c.pageHeight - 6))
            /\ \A p \in 1..Len(pdf) :
                  /\ \A k \in 1..Len(pdf[p].images) :
                        PlacedWell(c, k - 1, pdf[p].images[k], Val(printSize))
                  /\ \A k, m \in 1..Len(pdf[p].images) :
                        k # m => Disjoint(pdf[p].images[k], pdf[p].images[m])

C17_Witness ==
    /\ ~IsNull(exportCtx)
    /\ Val(exportCtx).kind = "page"
    /\ Val(exportCtx).layout.cols = 3
    /\ Len(pdf[1].images) = 6
    /\ Val(printSize) = Size(2, 5)

\* ---------------------------------------------------------------- C18
\* C18: when an image fails to load during an export, pdf.save is never
\* invoked for that export and the user is shown an error.
C18_FailedExportNotSaved ==
    exportFailed => IsNull(saved) /\ alerted /\ ~isGenerating

C18_Witness ==
    /\ exportFailed
    /\ Val(exportCtx).kind = "all"
    /\ Len(pdf) >= 2
    /\ Len(pdf[1].images) >= 1

RequiredFields == { "x", "y", "width", "height" }

\* The text cannot be parsed, or the rectangle it carries (wrapped in
\* areaConfig or bare) lacks a field or has one that is not a number.
InvalidConfigText(text) ==
    \/ text.t = "garbage"
    \/ text.t # "object"
    \/ LET data == ParseValue(text)
           inner == Get(data, "areaConfig")
           rect == IF inner.t = "object" THEN inner ELSE data
       IN  \E f \in RequiredFields : Get(rect, f).t # "number"

ImportedInvalid ==
    /\ configEvent = "import"
    /\ ~IsNull(importedText)
    /\ InvalidConfigText(Val(importedText))

\* C20: an import of a file that cannot be parsed, or whose rectangle has a
\* missing or non-numeric x, y, width or height, shows a message and leaves
\* the rectangle and the frame exactly as they were.
C20_InvalidImportRejected ==
    [][(/\ configEvent' = "import"
        /\ ~IsNull(importedText')
        /\ InvalidConfigText(Val(importedText'))) =>
          /\ areaConfig' = areaConfig
          /\ frameImage' = frameImage
          /\ ~IsNull(alertMsg')]_vars

C20_Witness ==
    /\ ImportedInvalid
    /\ Val(importedText).t = "object"
    /\ ~IsNull(alertMsg)
    /\ ~IsNull(areaConfig)
    /\ ~IsNull(frameImage)

\* ---------------------------------------------------------------- C21
ReportOverwrites ==
    appEvent = "report" => ~IsNull(lastReport) /\ mergedImages = Val(lastReport)

\* C21: passes are never cancelled, each one that completes replaces the
\* whole composited set of the application, so after overlapping passes the
\* application holds the output of the pass that completed last.
C21_LastCompletedPassWins ==
    /\ []ReportOverwrites
    /\ [][Len(inFlight') < Len(inFlight) =>
              /\ appEvent' = "report"
              /\ Len(inFlight') = Len(inFlight) - 1
              /\ mergedImages' = Val(lastReport')]_vars

\* The composites of the current frame, rectangle and source set.
CurrentComposites ==
    CompositesOf(Val(savedSettings).frameImage,
                 Val(savedSettings).areaConfig.value, qrisImages)

\* A pass with older inputs completed after the newest one.
C21_Witness ==
    /\ appEvent = "report"
    /\ inFlight = << >>
    /\ MergerMounted(savedSettings, qrisImages)
    /\ mergedImages # << >>
    /\ mergedImages # CurrentComposites

\* ---------------------------------------------------------------- C22
\* C22: with settings, a non-empty source set and no pass in flight, the
\* application holds exactly the composites of the current frame, rectangle
\* and source set, one per source image.
C22_CompositesAreCurrent ==
    (MergerMounted(savedSettings, qrisImages) /\ inFlight = << >>)
        => mergedImages = CurrentComposites

\* ---------------------------------------------------------------- C27
\* C27: a save while source images are present clears the composited set
\* and is followed by a compositing pass that fills it again, also when the
\* saved frame and rectangle are those saved before.
C27_SaveStartsPass ==
    (appEvent = "save" /\ Len(qrisImages) > 0)
        => mergedImages = << >> /\ inFlight # << >>

\* ---------------------------------------------------------------- C30
\* C30: while the source set is empty (after Clear All or the removal of
\* the last source image) the composited set of the application is empty.
C30_EmptyWithoutSources ==
    Len(qrisImages) = 0 => mergedImages = << >>

\* ---------------------------------------------------------------- C29
\* C29: every pass that was started eventually hands a result, possibly the
\* empty one, to onMergedImagesReady; a frame that fails to decode does not
\* leave the pass without a report.
C29_PassReports ==
    (passPc = "frame") ~> (~IsNull(reported))

\* ---------------------------------------------------------------- C23
\* The mode a pointer-down at raw would enter now.
ModeOfPointerDown(raw) ==
    IF ~IsNull(areaConfig)
    THEN GetCornerAtPosition(GetRelativePosition(raw), Val(areaConfig))
    ELSE "draw"

\* C23: a reset, in whatever editor state, leaves no persisted rectangle and
\* no candidate, and from a reset up to the next pointer-down a pointer-down
\* at any position would enter drawing.
C23_ResetThenDraw ==
    /\ event = "reset" => IsNull(areaConfig) /\ IsNull(tempArea)
    /\ resetSinceDown => \A raw \in RawPoints : ModeOfPointerDown(raw) = "draw"

\* ---------------------------------------------------------------- C24
ListenersMatchMode ==
    windowListeners = Listeners(IF dragMode # "none" THEN 1 ELSE 0)

\* C24: window has one mousemove and one mouseup handler exactly while the
\* mode is not 'none', and none otherwise, over any number of gestures; a
\* mousemove while idle changes neither the candidate nor the persisted
\* rectangle.
C24_ListenersWhileActive ==
    /\ []ListenersMatchMode
    /\ [][(dragMode = "none" /\ event' \in { "move", "move-ignored" }) =>
              /\ tempArea' = tempArea
              /\ areaConfig' = areaConfig]_vars

\* A mousemove while idle after the second gesture.
C24_Witness ==
    /\ event = "move-ignored"
    /\ dragMode = "none"
    /\ gestures = 2
    /\ ~IsNull(areaConfig)
    /\ windowListeners = Listeners(0)

\* ---------------------------------------------------------------- C25
\* C25: after every pointer-up the editor is idle; while idle there is no
\* anchor, no candidate and no original rectangle; while moving or resizing
\* an original rectangle is recorded.
C25_SessionFields ==
    /\ event = "up" => dragMode = "none"
    /\ dragMode = "none" =>
          IsNull(dragStart) /\ IsNull(tempArea) /\ IsNull(originalArea)
    /\ dragMode \in ({ "move" } \cup ResizeModes) => ~IsNull(originalArea)

\* A pointer-up that ended a move or resize gesture without a commit.
C25_Witness ==
    /\ event = "up"
    /\ dragMode = "none"
    /\ onAreaChangeCalls = << >>
    /\ gestures = 2
    /\ IsNull(areaConfig)
    /\ ~IsNull(downArea)

\* ---------------------------------------------------------------- C26
ResizeCandidateFloored ==
    /\ AfterResizeMove =>
          /\ Val(tempArea).width >= minSize
          /\ Val(tempArea).height >= minSize
    \* a draw from the corner to (3, 1.5) is committed with a height below 2
    /\ LET drawn == DrawArea(Point(0, 0), Point(3 * Scale, (3 * Scale) \div 2))
       IN  IsValidArea(drawn) /\ drawn.height < minSize

\* C26: every candidate a pointer-move produces in a resize mode has
\* width >= 2 and height >= 2, so a pointer-up that follows it commits the
\* candidate, whereas a draw can commit a rectangle with a side between 1
\* and 2.
C26_ResizeFloorCommits ==
    /\ []ResizeCandidateFloored
    /\ [][(AfterResizeMove /\ event' = "up") =>
              /\ areaConfig' = tempArea
              /\ onAreaChangeCalls' = << tempArea >>]_vars

\* A first gesture, hence a draw, that committed a side between 1 and 2.
C26_Witness ==
    /\ event = "up"
    /\ IsNull(downArea)
    /\ ~resetSinceDown
    /\ onAreaChangeCalls = << areaConfig >>
    /\ \/ Val(areaConfig).height < minSize
       \/ Val(areaConfig).width < minSize

\* ---------------------------------------------------------------- C28
\* The whole-document export draws what the single-page exports draw.
AllMatchesPages ==
    (~IsNull(exportCtx) /\ Val(exportCtx).kind = "all") =>
        LET c == Val(exportCtx)
            single == PageExportLayout(c.layout.imagesPerPage)
        IN  /\ Len(pdf) <= Len(c.todo)
            /\ \A p \in 1..Len(pdf) :
                  /\ Len(pdf[p].images) <= Len(c.todo[p])
                  /\ p < Len(pdf) => Len(pdf[p].images) = Len(c.todo[p])
                  /\ \A k \in 1..Len(pdf[p].images) :
                        pdf[p].images[k]
                           = PlaceOnPage(single, k - 1, c.todo[p][k],
                                         Val(printSize))
            /\ ~IsNull(saved) =>
                  /\ Len(pdf) = Len(c.todo)
                  /\ Len(pdf[Len(pdf)].images) = Len(c.todo[Len(pdf)])

\* C28: for every imagesPerPage, page and image index the single-page export
\* and the whole-document export compute the same x, y, width and height,
\* and the whole-document export has one document page per layout page, in
\* order, each holding exactly the images of its layout page.
C28_AllEqualsSinglePages ==
    /\ AllMatchesPages
    /\ \A v \in ImagesPerPageValues : \A img \in PrintSizes : \A i \in 0..(v - 1) :
          PlaceInAll(AllExportLayout(v), i, i, img)
             = PlaceOnPage(PageExportLayout(v), i, i, img)

\* A saved whole document of several pages with several images each.
C28_Witness ==
    /\ ~IsNull(exportCtx)
    /\ Val(exportCtx).kind = "all"
    /\ ~IsNull(saved)
    /\ Len(pdf) >= 3
    /\ Len(pdf[1].images) >= 4
    /\ Len(pdf[Len(pdf)].images) < Len(pdf[1].images)

\* ---------------------------------------------------------------- C31
\* A composite made of the frame, the rectangle and one source of pass p.
MadeFromInputsOf(p, url) ==
    /\ url.frame = p.frameImage
    /\ url.area = p.areaConfig
    /\ \E k \in 1..Len(p.qrisImages) : url.qris = p.qrisImages[k]

AllMadeFromInputsOf(p, urls) ==
    \A j \in 1..Len(urls) : MadeFromInputsOf(p, urls[j])

\* C31: passes that overlap draw on the one canvas, yet every composite a
\* pass collects, and every composite it reports, is made of that pass's
\* own frame, rectangle and source image only, because the drawing and the
\* encoding of one image run without a suspension point.
C31_CompositesFromOwnInputs ==
    /\ [](\A k \in 1..Len(inFlight) :
              AllMadeFromInputsOf(inFlight[k], inFlight[k].mergedResults))
    /\ [][\A k \in 1..Len(inFlight) :
              (appEvent' = "report" /\ inFlight' = RemoveAt(inFlight, k))
                  => AllMadeFromInputsOf(inFlight[k], Val(lastReport'))]_vars

\* Two passes with different frames are in flight, each has composited an
\* image, and the canvas shows the drawing of one of them.
C31_Witness ==
    /\ appEvent = "qris"
    /\ \E k1, k2 \in 1..Len(inFlight) :
          /\ inFlight[k1].frameImage # inFlight[k2].frameImage
          /\ inFlight[k1].mergedResults # << >>
          /\ inFlight[k2].mergedResults # << >>
          /\ canvas.frame = inFlight[k1].frameImage
          /\ canvas.qris = inFlight[k2].qrisImages[1]

\* ---------------------------------------------------------------- C32
\* C32: whatever the sequence of frame uploads, removals, gestures, resets,
\* imports and saves, every rectangle in the saved settings has width > 1
\* and height > 1, lies inside the frame (0 <= x, 0 <= y, x + width <= 100,
\* y + height <= 100) and is saved together with a frame.
C32_SavedRectangleInFrame ==
    ~IsNull(savedSettings) =>
        /\ Val(savedSettings).frameImage \in FrameImages
        /\ IsValidArea(Val(savedSettings).areaConfig)
        /\ RectInvariant(Val(savedSettings).areaConfig)

\* ---------------------------------------------------------------- C33
\* C33: a frame upload and a frame removal leave no working rectangle, so
\* the working rectangle was always set after the working frame; and a save
\* happens only with a frame and a rectangle of width > 1 and height > 1,
\* which are what it saves.
C33_FrameChangeClearsRectangle ==
    /\ [][(frameImage' # frameImage \/ configEvent' \in { "upload", "remove" })
              => areaConfig' = Null]_vars
    /\ [][hideTimers' > hideTimers =>
              /\ CanSave
              /\ savedSettings' = Some([frameImage |-> Val(frameImage),
                                       areaConfig |-> Val(areaConfig)])]_vars

\* A rectangle was saved with one frame, another frame has just been
\* uploaded: there is no working rectangle and saving is disabled.
C33_Witness ==
    /\ configEvent = "upload"
    /\ ~IsNull(savedSettings)
    /\ ~IsNull(frameImage)
    /\ Val(savedSettings).frameImage # Val(frameImage)
    /\ IsNull(areaConfig)
    /\ ~CanSave

\* ---------------------------------------------------------------- C34
\* C34: right after a successful save the save-success indicator is set;
\* the update of the saved settings that the save causes in the parent does
\* not clear it.
C34_IndicatorSetAfterSave ==
    configEvent = "save" => saveSuccess
====
